---- MODULE Spec2Model ----
\* Model of mcp_code_sandbox: the SessionManager (session.py), the tool
\* wrappers and the startup sequence (server.py), the TTL reaper and the
\* orphan sweep (cleanup.py) and the container engine they drive.
\*
\* Threads: the tool handlers run SessionManager methods through
\* asyncio.to_thread (server.py), the reaper is a daemon thread (cleanup.py).
\* No method takes a registry-wide lock, so every access to one of the three
\* registry dicts, every lock operation and every container-engine call is a
\* separate step of the calling thread; the steps of different threads
\* interleave freely. Computation on locals belongs to the step of the
\* shared access that follows it.
EXTENDS Naturals, Integers, FiniteSets, Sequences, TLC

\* ---------------------------------------------------------------- bounds
MaxOps == 3            \* tool calls started in one behaviour
MaxTime == 2           \* the clock runs 0..MaxTime
session_ttl == 1       \* ttl_s of the reaper, in clock units
max_sessions == 1      \* SandboxConfig.max_sessions of the modelled broker
max_output_bytes == 1  \* SandboxConfig.max_output_bytes of the modelled broker
MaxErr == 2            \* bytes a guest program writes to a stream, at most
MaxOrphans == 2        \* containers a previous server run left behind, at most
MaxBytes == 2          \* bytes of an uploaded file, at most
max_artifact_read_bytes == 1   \* SandboxConfig.max_artifact_read_bytes
MaxOpsD == 2           \* tool calls and requests in one behaviour of SpecD
MaxLimit == 4          \* the size validators are called with limits 0..MaxLimit
MaxName == 3           \* characters of a short file name
MaxCode == 2           \* characters of a code text, at most
MaxProg == 2           \* file operations of a guest program, at most

Clients == {"t1", "t2"}
Reaper == "R"
Threads == Clients \cup {Reaper}
SIDs == {"a", "b"}
Files == {"f", "g"}
NoSid == "none"
NoCtr == 0
NoLock == 0
NoTime == -1
None == "None"

ToolOps == {"execute", "upload", "list", "read", "close"}

\* exception classes a call of the engine client raises, whatever the state
\* of the container it is about: those of docker.errors, and ConnectionError
\* of requests for the exceptions outside docker.errors that the client
\* lets through. A call on a container that is not running does not
\* succeed: it raises one of them.
EngineExc == {"NotFound", "APIError", "DockerException", "ConnectionError"}

\* ---------------------------------------------------------------- paths
\* A path is the sequence of its components; an absolute path starts with
\* the component "/".
DataDir == <<"/", "mnt", "data">>

DataPath(f) == Append(DataDir, f)

\* a file of the image, outside the data directory
ImageFile == <<"/", "etc", "passwd">>

RootPath == <<"/">>

NoPath == <<>>

\* PurePosixPath(path).name: the last component, "" for the root and for ""
PathName(p) ==
    IF p = <<>> \/ p = RootPath THEN "" ELSE p[Len(p)]

\* PurePosixPath("/mnt/data").joinpath(name): joining "" changes nothing
Resolved(p) ==
    IF PathName(p) = "" THEN DataDir ELSE Append(DataDir, PathName(p))

\* `resolved.startswith("/mnt/data/")`
ValidPath(p) ==
    /\ Len(Resolved(p)) > Len(DataDir)
    /\ SubSeq(Resolved(p), 1, Len(DataDir)) = DataDir

\* the directory of a path
Parent(p) == IF Len(p) <= 1 THEN p ELSE SubSeq(p, 1, Len(p) - 1)

\* the path the engine looks up for p: it starts at the root of the
\* container, also for a path without the leading "/", and a component ".."
\* leads to the directory above
RECURSIVE Norm(_)
Norm(p) ==
    IF p = <<>> THEN RootPath
    ELSE LET q == Norm(SubSeq(p, 1, Len(p) - 1)) IN
         IF p[Len(p)] = ".." THEN Parent(q)
         ELSE IF p[Len(p)] = "/" THEN q
         ELSE Append(q, p[Len(p)])

\* the directories of a container that the paths of the model lead to
IsDir(p) ==
    Norm(p) \in {RootPath, <<"/", "mnt">>, DataDir, <<"/", "etc">>}

\* ---------------------------------------------------------------- bytes
\* A byte string is a sequence of numbers 0..255. A base64 text is a
\* sequence of symbols: 0..63 are the characters of the alphabet
\* A-Z a-z 0-9 + / in this order, Pad is "=".
Pad == 64

\* the byte values of the modelled file contents: "a" and 0xff
ByteVals == {97, 255}

ByteStrings(n) == UNION {[1..k -> ByteVals] : k \in 0..n}

\* the four symbols that encode the three bytes a, b, c
Quad(a, b, c) ==
    LET n == a * 65536 + b * 256 + c IN
    <<n \div 262144, (n \div 4096) % 64, (n \div 64) % 64, n % 64>>

\* base64.b64encode: groups of three bytes, the last group padded
RECURSIVE B64Encode(_)
B64Encode(b) ==
    IF Len(b) = 0 THEN <<>>
    ELSE IF Len(b) = 1
    THEN SubSeq(Quad(b[1], 0, 0), 1, 2) \o <<Pad, Pad>>
    ELSE IF Len(b) = 2
    THEN SubSeq(Quad(b[1], b[2], 0), 1, 3) \o <<Pad>>
    ELSE Quad(b[1], b[2], b[3]) \o B64Encode(SubSeq(b, 4, Len(b)))

\* the symbols of a text without its padding
DataOf(s) == SelectSeq(s, LAMBDA x : x # Pad)

\* base64.b64decode (validate=False) of a text whose padding is at its end
\* raises binascii.Error unless the data symbols and the padding fit: one
\* symbol over a multiple of four never fits, two need two pads or more,
\* three need one pad or more
B64Valid(s) ==
    LET k == Len(DataOf(s))
        p == Len(s) - Len(DataOf(s)) IN
    /\ k % 4 # 1
    /\ k % 4 = 2 => p >= 2
    /\ k % 4 = 3 => p >= 1

\* the three bytes of the four symbols a, b, c, d
Triple(a, b, c, d) ==
    LET n == a * 262144 + b * 4096 + c * 64 + d IN
    <<n \div 65536, (n \div 256) % 256, n % 256>>

\* the bytes of the data symbols d: a last group of two symbols holds one
\* byte, of three symbols two bytes
RECURSIVE DecodeData(_)
DecodeData(d) ==
    IF Len(d) < 2 THEN <<>>
    ELSE IF Len(d) = 2 THEN SubSeq(Triple(d[1], d[2], 0, 0), 1, 1)
    ELSE IF Len(d) = 3 THEN SubSeq(Triple(d[1], d[2], d[3], 0), 1, 2)
    ELSE Triple(d[1], d[2], d[3], d[4]) \o DecodeData(SubSeq(d, 5, Len(d)))

\* mutant of B64Decode: the padding is decoded like data
B64Decode_KeepPad(s) == DecodeData(s)

\* base64.b64decode of a text that does not raise
B64Decode(s) == DecodeData(DataOf(s))

\* ---------------------------------------------------------------- files
\* A data directory is a set of [name, mtime, data] with one entry per name.
\* tarfile.TarInfo leaves mtime at 0 (the epoch) and put_archive keeps the
\* mtime of the archive member: an uploaded file is older than every file a
\* guest program writes during the run of the broker. A file that a guest
\* writes gets the time of the file system of its container, which has moved
\* on since the write before (%T@ prints it to the nanosecond): `fstime` of
\* a container counts the writes of its guests.
TarMtime == -1

Names(fs) == {r.name : r \in fs}

FileSet(W, m, d) == {[name |-> n, mtime |-> m, data |-> d] : n \in W}

Without(fs, D) == {r \in fs : r.name \notin D}

\* ---------------------------------------------------------------- inputs
\* content_base64 of upload: the encodings of the byte strings of up to n
\* bytes
Encodings(n) == {B64Encode(b) : b \in ByteStrings(n)}

\* a text that makes b64decode raise: "YQ==" without its padding
BadContent == SubSeq(B64Encode(<<97>>), 1, 2)

\* no content: the argument of the calls that take none
NoContent == <<>>

\* A guest program run: the exit code of `timeout T python -c code`, the
\* bytes it wrote to stdout and to stderr, and the file operations it does
\* on the data directory, in their order: it writes or deletes one file at a
\* time while exec_run waits for it. The bytes of a stream are "e" (0x65)
\* and the two bytes "c3", "a9" of the UTF-8 encoding of U+00E9.
ExitCodes == {0, 1, 124}

\* the programs over the file names F: up to MaxProg operations, none twice
Progs(F) ==
    {p \in UNION {[1..n -> [k : {"write", "delete"}, name : F]] :
                     n \in 0..MaxProg} :
        \A i, j \in DOMAIN p : i # j => p[i] # p[j]}

Streams == UNION {[1..n -> {"e", "c3", "a9"}] : n \in 0..MaxErr}

\* the guest runs that print to stderr only, and either print or work on
\* files
GuestRuns ==
    {g \in [exit : ExitCodes, out : {<<>>},
             err : {[i \in 1..n |-> "e"] : n \in 0..MaxErr},
             prog : Progs(Files)] :
        g.err = <<>> \/ g.prog = <<>>}

\* the inputs of the specifications with concurrent threads and of the
\* startup: one file name, paths in the data directory, decodable content,
\* guest programs that end by themselves, print nothing and leave the data
\* directory alone
Files1 == {"f"}

Paths1 == {DataPath(f) : f \in Files1}

Contents1 == {B64Encode(<<97>>)}

GuestRuns1 ==
    {g \in GuestRuns : g.exit # 124 /\ g.err = <<>> /\ g.prog = <<>>}

\* the inputs of the sequential specifications: the client names one
\* session id (or none), and every file name, path and guest run occurs
SIDs1 == {"a"}

Contents == Contents1 \cup {BadContent}

Paths ==
    {DataPath(f) : f \in Files}
    \cup {ImageFile, RootPath, DataDir, <<"/", "etc">>,
          DataDir \o <<"..", "data", "f">>, <<"mnt", "data", "f">>, <<"etc">>}

VARIABLES
    sessions,        \* SessionManager._sessions : sid -> container id
    last_accessed,   \* SessionManager._last_accessed : sid -> clock value
    locks,           \* SessionManager._locks : sid -> lock object
    held,            \* the lock objects that are currently acquired
    nlocks,          \* number of threading.Lock() objects made so far
    containers,      \* the engine: sequence of [sid, status, fstime, files]
    now,             \* time.monotonic()
    pc, op, sid, ctr, lk, ow, res,   \* per thread: position and locals
    filename,        \* per thread: the filename argument of upload
    content,         \* per thread: the content_base64 argument of upload
    path,            \* per thread: the path argument of read_file
    run,             \* per thread: the locals of _execute_locked
    expired,         \* the reaper's list of expired ids still to close
    ops,             \* tool calls started so far
    ret,             \* the call that returned in the last step, if any
    boot,            \* position of main(): list, sweep, serve or exit
    orphans,         \* remove_orphan_containers: containers still to visit
    removed,         \* remove_orphan_containers: its counter
    vcall            \* a call of a pure function: its arguments and result

registry == <<sessions, last_accessed, locks>>
args == <<op, sid, ow, filename, content, path>>
locals == <<op, sid, ow, filename, content, path, ctr, lk, res, run>>
startup == <<boot, orphans, removed>>
vars == <<sessions, last_accessed, locks, held, nlocks, containers, now,
          pc, op, sid, ctr, lk, ow, res, filename, content, path, run,
          expired, ops, ret, boot, orphans, removed, vcall>>

\* ---------------------------------------------------------------- helpers
\* the key sets of the three registry dicts
SessionKeys == {s \in SIDs : sessions[s] # NoCtr}
AccessKeys == {s \in SIDs : last_accessed[s] # NoTime}
LockKeys == {s \in SIDs : locks[s] # NoLock}

Live(c) == containers[c].status # "removed"

Running(c) == c # NoCtr /\ containers[c].status = "running"

\* containers named sandbox-<s> (and labelled session_id=<s>) in the engine
Named(s) == {c \in 1..Len(containers) : containers[c].sid = s /\ Live(c)}

\* the classes an exception of class e is an instance of, among those that
\* _map_docker_error tests: docker.errors has ImageNotFound(NotFound),
\* NotFound(APIError), APIError(DockerException)
Bases(e) ==
    CASE e = "ImageNotFound" ->
            {"ImageNotFound", "NotFound", "APIError", "DockerException"}
      [] e = "NotFound" -> {"NotFound", "APIError", "DockerException"}
      [] e = "APIError" -> {"APIError", "DockerException"}
      [] e = "DockerException" -> {"DockerException"}
      [] OTHER -> {}

\* _map_docker_error: the isinstance tests in their order
MapDockerError(e) ==
    IF "NotFound" \in Bases(e) THEN "session_not_found"
    ELSE IF "APIError" \in Bases(e) THEN "docker_error"
    ELSE IF "DockerException" \in Bases(e) THEN "docker_unavailable"
    ELSE "execution_failed"

\* the positions between lock.acquire and lock.release of execute
LockedPcs == {"x_snap", "x_exec", "x_guest", "x_after", "e_rel"}

InFlight(t) == op[t] = "execute" /\ pc[t] \in LockedPcs

\* the locals of _execute_locked before the method has set them; guest is
\* the guest run exec_run is waiting for, here none
NoRun ==
    [before |-> {}, after |-> {},
     guest |-> [exit |-> 0, out |-> <<>>, err |-> <<>>, prog |-> <<>>],
     raw |-> 0, exit_code |-> 0,
     timed_out |-> FALSE, stderr |-> <<>>, artifacts |-> <<>>,
     stdout |-> <<>>, stdout_truncated |-> FALSE,
     stderr_truncated |-> FALSE, out_bytes |-> 0, err_bytes |-> 0]

\* no call returns in this step
NoRet ==
    [t |-> "none", op |-> "none", sid |-> NoSid, path |-> NoPath,
     res |-> "none", run |-> NoRun, listing |-> <<>>, size |-> 0,
     data |-> <<>>]

\* the thread moves to position p and keeps its locals
Goto(t, p) ==
    /\ pc' = [pc EXCEPT ![t] = p]
    /\ ret' = NoRet
    /\ UNCHANGED locals

\* the method returns r (or raises, r = "raise") to its caller; v is the
\* listing of a ListArtifactsResult, n the size_bytes and d the content of a
\* ReadArtifactResult or of an ErrorResponse
Reply(t, r, v, n, d) ==
    /\ pc' = [pc EXCEPT ![t] = IF t = Reaper
                                THEN (IF r = "raise" THEN "dead" ELSE "r_next")
                                ELSE "idle"]
    /\ ret' = [t |-> t, op |-> op[t], sid |-> sid[t], path |-> path[t],
               res |-> r, run |-> IF r = "run" THEN run[t] ELSE NoRun,
               listing |-> v, size |-> n, data |-> d]
    /\ op' = [op EXCEPT ![t] = IF t = Reaper THEN "close" ELSE "none"]
    /\ res' = [res EXCEPT ![t] = "none"]
    /\ sid' = [sid EXCEPT ![t] = NoSid]
    /\ ctr' = [ctr EXCEPT ![t] = NoCtr]
    /\ lk' = [lk EXCEPT ![t] = NoLock]
    /\ ow' = [ow EXCEPT ![t] = FALSE]
    /\ filename' = [filename EXCEPT ![t] = "none"]
    /\ content' = [content EXCEPT ![t] = NoContent]
    /\ path' = [path EXCEPT ![t] = NoPath]
    /\ run' = [run EXCEPT ![t] = NoRun]

Return(t, r, v) == Reply(t, r, v, 0, <<>>)

Finish(t, r) == Return(t, r, <<>>)

\* no validator call
NoCall ==
    [fn |-> "none", limit |-> 0, arg |-> <<>>, exc |-> "none", out |-> "none"]

\* ---------------------------------------------------------------- Init
Init ==
    /\ sessions = [s \in SIDs |-> NoCtr]
    /\ last_accessed = [s \in SIDs |-> NoTime]
    /\ locks = [s \in SIDs |-> NoLock]
    /\ held = {}
    /\ nlocks = 0
    /\ containers = <<>>
    /\ now = 0
    /\ pc = [t \in Threads |-> IF t = Reaper THEN "r_wait" ELSE "idle"]
    /\ op = [t \in Threads |-> IF t = Reaper THEN "close" ELSE "none"]
    /\ sid = [t \in Threads |-> NoSid]
    /\ ctr = [t \in Threads |-> NoCtr]
    /\ lk = [t \in Threads |-> NoLock]
    /\ ow = [t \in Threads |-> FALSE]
    /\ res = [t \in Threads |-> "none"]
    /\ filename = [t \in Threads |-> "none"]
    /\ content = [t \in Threads |-> NoContent]
    /\ path = [t \in Threads |-> NoPath]
    /\ run = [t \in Threads |-> NoRun]
    /\ expired = {}
    /\ ops = 0
    /\ ret = NoRet
    /\ boot = "serve"
    /\ orphans = <<>>
    /\ removed = 0
    /\ vcall = NoCall

\* ---------------------------------------------------------------- clock
Tick ==
    /\ now < MaxTime
    /\ now' = now + 1
    /\ ret' = NoRet
    /\ UNCHANGED <<registry, held, nlocks, containers, pc, locals, expired,
                   ops, startup, vcall>>

\* ---------------------------------------------------------------- tool calls
\* ids generate_session_id can return: uuid4 ids are fresh
FreshIds ==
    {s \in SIDs : /\ sessions[s] = NoCtr /\ last_accessed[s] = NoTime
                  /\ locks[s] = NoLock
                  /\ \A c \in 1..Len(containers) : containers[c].sid # s}

FirstPc(o) ==
    IF o \in {"execute", "upload"} THEN "g_chk"
    ELSE IF o = "list" THEN "l_chk"
    ELSE IF o = "read" THEN "r_chk"
    ELSE IF o = "download" THEN "h_chk"
    ELSE "c_chk"

\* the arguments of one call of a SessionManager method
CallOf(o, a, w, f, c, p) ==
    [op |-> o, session_id |-> a, overwrite |-> w, filename |-> f,
     content_base64 |-> c, path |-> p]

\* The calls on the session ids IDS with file names FS, contents CS and
\* paths PS. session_id can also be None for upload and execute, where
\* get_or_create generates the id.
Calls(IDS, FS, CS, PS) ==
    {CallOf("execute", a, FALSE, "none", NoContent, NoPath) :
        a \in IDS \cup {None}}
    \cup {CallOf("upload", a, w, f, c, NoPath) :
            a \in IDS \cup {None}, w \in BOOLEAN, f \in FS, c \in CS}
    \cup {CallOf("list", a, FALSE, "none", NoContent, NoPath) : a \in IDS}
    \cup {CallOf("read", a, FALSE, "none", NoContent, p) : a \in IDS, p \in PS}
    \cup {CallOf("close", a, FALSE, "none", NoContent, NoPath) : a \in IDS}

\* the requests GET /files/{session_id}/{filename} of the HTTP surface
Downloads(IDS, FS) ==
    {CallOf("download", a, FALSE, f, NoContent, NoPath) : a \in IDS, f \in FS}

\* A client thread enters a SessionManager method (or the HTTP route) with
\* the arguments c; the server accepts calls once main() has reached
\* mcp.run().
Start(t, c) ==
    /\ pc[t] = "idle"
    /\ boot = "serve"
    /\ ops < MaxOps
    /\ \E s \in (IF c.session_id = None THEN FreshIds ELSE {c.session_id}) :
          sid' = [sid EXCEPT ![t] = s]
    /\ ops' = ops + 1
    /\ op' = [op EXCEPT ![t] = c.op]
    /\ ow' = [ow EXCEPT ![t] = c.overwrite]
    /\ filename' = [filename EXCEPT ![t] = c.filename]
    /\ content' = [content EXCEPT ![t] = c.content_base64]
    /\ path' = [path EXCEPT ![t] = c.path]
    /\ pc' = [pc EXCEPT ![t] = FirstPc(c.op)]
    /\ ret' = NoRet
    /\ UNCHANGED <<registry, held, nlocks, containers, now, ctr, lk, res,
                   run, expired, startup, vcall>>

\* the error kinds the tool wrapper of o returns before it calls the
\* SessionManager: validate_session_id, validate_upload_size,
\* validate_code_size
WrapperErrors(o) ==
    IF o = "upload" THEN {"invalid_session_id", "upload_too_large"}
    ELSE IF o = "execute" THEN {"invalid_session_id", "code_too_large"}
    ELSE {"invalid_session_id"}

\* a tool wrapper rejects its arguments: the SessionManager is not called
WrapperReject(t, o, kind) ==
    /\ pc[t] = "idle"
    /\ boot = "serve"
    /\ ops < MaxOps
    /\ kind \in WrapperErrors(o)
    /\ ops' = ops + 1
    /\ ret' = [NoRet EXCEPT !.t = t, !.op = o, !.res = kind]
    /\ UNCHANGED <<registry, held, nlocks, containers, now, pc, locals,
                   expired, startup, vcall>>

\* upload: _validate_filename rejects the name before anything else happens
UploadInvalidName(t, kind) ==
    /\ pc[t] = "idle"
    /\ boot = "serve"
    /\ ops < MaxOps
    /\ ops' = ops + 1
    /\ ret' = [NoRet EXCEPT !.t = t, !.op = "upload", !.res = kind]
    /\ UNCHANGED <<registry, held, nlocks, containers, now, pc, locals,
                   expired, startup, vcall>>

\* ---------------------------------------------------------------- get_or_create
\* where upload / execute continue after get_or_create returned a container
AfterGoc(t) ==
    IF op[t] = "execute" THEN "e_lock"
    ELSE IF ow[t] THEN "u_put" ELSE "u_test"

\* the thread moves to position p with the container c in its local
GotoWith(t, p, c) ==
    /\ pc' = [pc EXCEPT ![t] = p]
    /\ ctr' = [ctr EXCEPT ![t] = c]
    /\ ret' = NoRet
    /\ UNCHANGED <<args, lk, res, run>>

\* `if sid in self._sessions`
GocCheck(t) ==
    /\ pc[t] = "g_chk"
    /\ Goto(t, IF sessions[sid[t]] # NoCtr THEN "g_touch" ELSE "g_len")
    /\ UNCHANGED <<registry, held, nlocks, containers, now, expired, ops,
                   startup, vcall>>

\* `self._last_accessed[sid] = time.monotonic()` of the reuse branch
GocTouch(t) ==
    /\ pc[t] = "g_touch"
    /\ last_accessed' = [last_accessed EXCEPT ![sid[t]] = now]
    /\ Goto(t, "g_ret")
    /\ UNCHANGED <<sessions, locks, held, nlocks, containers, now, expired,
                   ops, startup, vcall>>

\* `return sid, self._sessions[sid]`; a KeyError is caught by the caller's
\* `except Exception` and mapped by _map_docker_error
GocReturn(t) ==
    /\ pc[t] = "g_ret"
    /\ IF sessions[sid[t]] # NoCtr
       THEN GotoWith(t, AfterGoc(t), sessions[sid[t]])
       ELSE Finish(t, MapDockerError("KeyError"))
    /\ UNCHANGED <<registry, held, nlocks, containers, now, expired, ops,
                   startup, vcall>>

\* mutant of GocLimit: the limit test is `>` instead of `>=`
GocLimit_OffByOne(t) ==
    /\ pc[t] = "g_len"
    /\ IF Cardinality(SessionKeys) > max_sessions
       THEN Finish(t, "max_sessions")
       ELSE Goto(t, "g_create")
    /\ UNCHANGED <<registry, held, nlocks, containers, now, expired, ops,
                   startup, vcall>>

\* `if len(self._sessions) >= self._config.max_sessions`
GocLimit(t) ==
    /\ pc[t] = "g_len"
    /\ IF Cardinality(SessionKeys) >= max_sessions
       THEN Finish(t, "max_sessions")
       ELSE Goto(t, "g_create")
    /\ UNCHANGED <<registry, held, nlocks, containers, now, expired, ops,
                   startup, vcall>>

\* the container the engine makes for containers.create(name=sandbox-<s>,
\* labels={session_id: s}, volumes=[/mnt/data]): created, empty data volume
NewContainer(s) ==
    [sid |-> s, status |-> "created", fstime |-> 0, files |-> {}]

\* `self._client.containers.create(...)`; the engine refuses a name that a
\* container already has (409, APIError)
GocCreate(t) ==
    /\ pc[t] = "g_create"
    /\ \/ /\ Named(sid[t]) = {}
          /\ containers' = Append(containers, NewContainer(sid[t]))
          /\ GotoWith(t, "g_start", Len(containers) + 1)
       \/ /\ Named(sid[t]) # {}
          /\ Finish(t, MapDockerError("APIError"))
          /\ UNCHANGED containers
       \/ \E e \in EngineExc :
             /\ Finish(t, MapDockerError(e))
             /\ UNCHANGED containers
    /\ UNCHANGED <<registry, held, nlocks, now, expired, ops, startup, vcall>>

\* `container.start()`; on failure the created container is left behind
GocStart(t) ==
    /\ pc[t] = "g_start"
    /\ \/ /\ containers' = [containers EXCEPT ![ctr[t]].status = "running"]
          /\ Goto(t, "g_reg1")
       \/ \E e \in EngineExc :
             /\ Finish(t, MapDockerError(e))
             /\ UNCHANGED containers
    /\ UNCHANGED <<registry, held, nlocks, now, expired, ops, startup, vcall>>

\* `self._sessions[sid] = container`
GocRegisterSession(t) ==
    /\ pc[t] = "g_reg1"
    /\ sessions' = [sessions EXCEPT ![sid[t]] = ctr[t]]
    /\ Goto(t, "g_reg2")
    /\ UNCHANGED <<last_accessed, locks, held, nlocks, containers, now,
                   expired, ops, startup, vcall>>

\* `self._last_accessed[sid] = time.monotonic()`
GocRegisterAccess(t) ==
    /\ pc[t] = "g_reg2"
    /\ last_accessed' = [last_accessed EXCEPT ![sid[t]] = now]
    /\ Goto(t, "g_reg3")
    /\ UNCHANGED <<sessions, locks, held, nlocks, containers, now, expired,
                   ops, startup, vcall>>

\* `self._locks[sid] = threading.Lock()`; `return sid, container`
GocRegisterLock(t) ==
    /\ pc[t] = "g_reg3"
    /\ nlocks' = nlocks + 1
    /\ locks' = [locks EXCEPT ![sid[t]] = nlocks + 1]
    /\ Goto(t, AfterGoc(t))
    /\ UNCHANGED <<sessions, last_accessed, held, containers, now, expired,
                   ops, startup, vcall>>

get_or_create(t) ==
    \/ GocCheck(t) \/ GocTouch(t) \/ GocReturn(t) \/ GocLimit(t)
    \/ GocCreate(t) \/ GocStart(t)
    \/ GocRegisterSession(t) \/ GocRegisterAccess(t) \/ GocRegisterLock(t)

\* ---------------------------------------------------------------- execute
\* `lock = self._locks.get(sid)`; `if lock is None: lock = threading.Lock()`
ExecGetLock(t) ==
    /\ pc[t] = "e_lock"
    /\ IF locks[sid[t]] # NoLock
       THEN /\ lk' = [lk EXCEPT ![t] = locks[sid[t]]]
            /\ pc' = [pc EXCEPT ![t] = "e_acq"]
            /\ UNCHANGED nlocks
       ELSE /\ nlocks' = nlocks + 1
            /\ lk' = [lk EXCEPT ![t] = nlocks + 1]
            /\ pc' = [pc EXCEPT ![t] = "e_setlock"]
    /\ ret' = NoRet
    /\ UNCHANGED <<registry, held, containers, now, args, ctr, res, run,
                   expired, ops, startup, vcall>>

\* `self._locks[sid] = lock`
ExecSetLock(t) ==
    /\ pc[t] = "e_setlock"
    /\ locks' = [locks EXCEPT ![sid[t]] = lk[t]]
    /\ Goto(t, "e_acq")
    /\ UNCHANGED <<sessions, last_accessed, held, nlocks, containers, now,
                   expired, ops, startup, vcall>>

\* mutant of ExecAcquire: one lock for all sessions
ExecAcquire_AnyHeld(t) ==
    /\ pc[t] = "e_acq"
    /\ IF held # {}
       THEN Finish(t, "session_busy") /\ UNCHANGED held
       ELSE held' = held \cup {lk[t]} /\ Goto(t, "x_snap")
    /\ UNCHANGED <<registry, nlocks, containers, now, expired, ops, startup, vcall>>

\* `if not lock.acquire(blocking=False): return session_busy`
ExecAcquire(t) ==
    /\ pc[t] = "e_acq"
    /\ IF lk[t] \in held
       THEN Finish(t, "session_busy") /\ UNCHANGED held
       ELSE held' = held \cup {lk[t]} /\ Goto(t, "x_snap")
    /\ UNCHANGED <<registry, nlocks, containers, now, expired, ops, startup, vcall>>

\* the thread moves to position p with the locals x of _execute_locked
GotoRun(t, p, x) ==
    /\ pc' = [pc EXCEPT ![t] = p]
    /\ run' = [run EXCEPT ![t] = x]
    /\ ret' = NoRet
    /\ UNCHANGED <<args, ctr, lk, res>>

\* the thread leaves _execute_locked with r; `finally: lock.release()` follows
Leave(t, r, x) ==
    /\ pc' = [pc EXCEPT ![t] = "e_rel"]
    /\ res' = [res EXCEPT ![t] = r]
    /\ run' = [run EXCEPT ![t] = x]
    /\ ret' = NoRet
    /\ UNCHANGED <<args, ctr, lk>>

\* the exit codes `find /mnt/data -maxdepth 1 -type f -printf ...` can end
\* with in container c: 0, and 1 when a file that find has read from the
\* directory is gone before find looks at it, which happens when a guest
\* program of the container is about to remove a file of the directory
FindExits(c) ==
    {0} \cup {1 : u \in {u \in Threads :
                            /\ pc[u] = "x_guest" /\ ctr[u] = c
                            /\ run[u].guest.prog # <<>>
                            /\ Head(run[u].guest.prog).k = "delete"
                            /\ Head(run[u].guest.prog).name
                                  \in Names(containers[c].files)}}

\* _snapshot_files when find ended with exit_code: `if exit_code != 0:
\* return {}`, otherwise the dict name -> (name, size, mtime) of the lines
\* that find printed
snapshot_files(c, exit_code) ==
    IF exit_code # 0 THEN {}
    ELSE {[name |-> r.name, size |-> Len(r.data), mtime |-> r.mtime] :
             r \in containers[c].files}

\* `before = self._snapshot_files(container)`: outside the try, an engine
\* exception propagates out of execute
ExecSnapshot(t) ==
    /\ pc[t] = "x_snap"
    /\ \/ /\ Running(ctr[t])
          /\ \E ec \in FindExits(ctr[t]) :
                GotoRun(t, "x_exec",
                        [run[t] EXCEPT
                            !.before = snapshot_files(ctr[t], ec)])
       \/ \E e \in EngineExc : Leave(t, "raise", run[t])
    /\ UNCHANGED <<registry, held, nlocks, containers, now, expired, ops,
                   startup, vcall>>

\* mutant of Normalized: the exit code of the timeout wrapper is passed on
Normalized_Keep124(ec) == ec

\* `timed_out = exit_code == 124`; `if timed_out: exit_code = -1`
Normalized(ec) == IF ec = 124 THEN -1 ELSE ec

\* `stderr_bytes[:max_out]` when the stream is longer than max_output_bytes
Truncated(b) ==
    IF Len(b) > max_output_bytes THEN SubSeq(b, 1, max_output_bytes) ELSE b

\* the line `\nExecution timed out after {T}s`
TimeoutNote == "Execution timed out"

\* bytes.decode("utf-8", errors="replace"): the characters of a byte
\* stream, "e9" for U+00E9; a byte that starts or continues no complete
\* sequence becomes "fffd" (U+FFFD)
RECURSIVE Decode(_)
Decode(b) ==
    IF b = <<>> THEN <<>>
    ELSE IF Head(b) = "e" THEN <<"e">> \o Decode(Tail(b))
    ELSE IF Head(b) = "c3" /\ Len(b) >= 2 /\ b[2] = "a9"
    THEN <<"e9">> \o Decode(SubSeq(b, 3, Len(b)))
    ELSE <<"fffd">> \o Decode(Tail(b))

\* `len(stdout_bytes) > max_out`
IsTruncated(b) == Len(b) > max_output_bytes

\* stdout of the RunResult: truncated, then decoded
StdoutOf(b) == Decode(Truncated(b))

\* stderr of the RunResult: truncated, decoded, then the note of a timeout
StderrOf(b, timed_out) ==
    IF timed_out THEN Append(Decode(Truncated(b)), TimeoutNote)
    ELSE Decode(Truncated(b))

\* the locals of _execute_locked after exec_run returned the guest run g
Outcome(x, g) ==
    [x EXCEPT !.guest = NoRun.guest,
              !.raw = g.exit,
              !.timed_out = (g.exit = 124),
              !.exit_code = Normalized(g.exit),
              !.out_bytes = Len(g.out),
              !.err_bytes = Len(g.err),
              !.stdout_truncated = IsTruncated(g.out),
              !.stderr_truncated = IsTruncated(g.err),
              !.stdout = StdoutOf(g.out),
              !.stderr = StderrOf(g.err, g.exit = 124)]

\* the container x after a guest program did the file operation o: a write
\* stores the file, one byte a, with the next time of the file system
GuestOp(x, o) ==
    IF o.k = "write"
    THEN [x EXCEPT !.fstime = @ + 1,
                   !.files = Without(@, {o.name})
                                \cup FileSet({o.name}, x.fstime + 1, <<97>>)]
    ELSE [x EXCEPT !.files = Without(@, {o.name})]

\* mutant of ExecRun: the artifact scan follows every exit code
ExecRun_ScanAlways(t, G) ==
    /\ pc[t] \in {"x_exec", "x_guest"}
    /\ \/ /\ pc[t] = "x_exec" /\ Running(ctr[t])
          /\ UNCHANGED containers
          /\ \E g \in G :
                IF g.prog # <<>>
                THEN GotoRun(t, "x_guest", [run[t] EXCEPT !.guest = g])
                ELSE GotoRun(t, "x_after", Outcome(run[t], g))
       \/ /\ pc[t] = "x_guest" /\ Running(ctr[t])
          /\ LET g == run[t].guest IN
             IF g.prog # <<>>
             THEN /\ containers' = [containers EXCEPT
                                       ![ctr[t]] = GuestOp(@, Head(g.prog))]
                  /\ GotoRun(t, "x_guest",
                             [run[t] EXCEPT !.guest.prog = Tail(@)])
             ELSE /\ UNCHANGED containers
                  /\ GotoRun(t, "x_after", Outcome(run[t], g))
       \/ \E e \in EngineExc :
             /\ Leave(t, MapDockerError(e), [run[t] EXCEPT !.guest = NoRun.guest])
             /\ UNCHANGED containers
    /\ UNCHANGED <<registry, held, nlocks, now, expired, ops, startup, vcall>>

\* `container.exec_run(["timeout", T, "python", "-c", code])` inside the try.
\* The call starts the guest run, one of G, and waits until it has ended;
\* meanwhile the guest does its file operations one at a time, and the other
\* threads go on. The call returns when the program has no operation left;
\* the after-snapshot follows exit code 0 only.
\* An engine exception can end the call at any point.
ExecRun(t, G) ==
    /\ pc[t] \in {"x_exec", "x_guest"}
    /\ \/ /\ pc[t] = "x_exec" /\ Running(ctr[t])
          /\ UNCHANGED containers
          /\ \E g \in G :
                IF g.prog # <<>>
                THEN GotoRun(t, "x_guest", [run[t] EXCEPT !.guest = g])
                ELSE IF Normalized(g.exit) = 0
                THEN GotoRun(t, "x_after", Outcome(run[t], g))
                ELSE Leave(t, "run", Outcome(run[t], g))
       \/ /\ pc[t] = "x_guest" /\ Running(ctr[t])
          /\ LET g == run[t].guest IN
             IF g.prog # <<>>
             THEN /\ containers' = [containers EXCEPT
                                       ![ctr[t]] = GuestOp(@, Head(g.prog))]
                  /\ GotoRun(t, "x_guest",
                             [run[t] EXCEPT !.guest.prog = Tail(@)])
             ELSE /\ UNCHANGED containers
                  /\ IF Normalized(g.exit) = 0
                     THEN GotoRun(t, "x_after", Outcome(run[t], g))
                     ELSE Leave(t, "run", Outcome(run[t], g))
       \/ \E e \in EngineExc :
             /\ Leave(t, MapDockerError(e), [run[t] EXCEPT !.guest = NoRun.guest])
             /\ UNCHANGED containers
    /\ UNCHANGED <<registry, held, nlocks, now, expired, ops, startup, vcall>>

\* the orders in which a snapshot dict can yield its items: the order of
\* the lines find printed, which the file system of the container decides
Orders(S) ==
    {s \in [1..Cardinality(S) -> S] :
        \A i, j \in 1..Cardinality(S) : i # j => s[i] # s[j]}

\* mutant of Changed: only names missing from the before-snapshot count
Changed_NewOnly(before, info) == info.name \notin Names(before)

\* `name not in before or before[name].mtime != info.mtime`
Changed(before, info) ==
    \/ info.name \notin Names(before)
    \/ \E b \in before : b.name = info.name /\ b.mtime # info.mtime

\* the loop of _diff_snapshots over the items of the after-snapshot
RECURSIVE Collect(_, _)
Collect(before, items) ==
    IF items = <<>> THEN <<>>
    ELSE (IF Changed(before, Head(items)) THEN <<Head(items).name>>
          ELSE <<>>) \o Collect(before, Tail(items))

\* _diff_snapshots for the items of the after-snapshot in their order: the
\* file names of the ArtifactInfo list
diff_snapshots(before, items) == Collect(before, items)

\* `after = self._snapshot_files(container)` and the diff
ExecAfter(t) ==
    /\ pc[t] = "x_after"
    /\ \/ /\ Running(ctr[t])
          /\ \E ec \in FindExits(ctr[t]) :
                \E items \in Orders(snapshot_files(ctr[t], ec)) :
                   Leave(t, "run",
                         [run[t] EXCEPT
                            !.after = snapshot_files(ctr[t], ec),
                            !.artifacts =
                               diff_snapshots(run[t].before, items)])
       \/ \E e \in EngineExc : Leave(t, "raise", run[t])
    /\ UNCHANGED <<registry, held, nlocks, containers, now, expired, ops,
                   startup, vcall>>

\* `finally: lock.release()`
ExecRelease(t) ==
    /\ pc[t] = "e_rel"
    /\ held' = held \ {lk[t]}
    /\ Finish(t, res[t])
    /\ UNCHANGED <<registry, nlocks, containers, now, expired, ops, startup, vcall>>

execute(t, G) ==
    \/ ExecGetLock(t) \/ ExecSetLock(t) \/ ExecAcquire(t)
    \/ ExecSnapshot(t) \/ ExecRun(t, G) \/ ExecAfter(t) \/ ExecRelease(t)

\* ---------------------------------------------------------------- upload
\* `container.exec_run(["test", "-f", ...])` when overwrite is false
UploadTest(t) ==
    /\ pc[t] = "u_test"
    /\ \/ /\ Running(ctr[t])
          /\ IF filename[t] \in Names(containers[ctr[t]].files)
             THEN Finish(t, "file_exists")
             ELSE Goto(t, "u_put")
       \/ \E e \in EngineExc : Finish(t, "raise")
    /\ UNCHANGED <<registry, held, nlocks, containers, now, expired, ops,
                   startup, vcall>>

\* mutant of PutArchive: a member does not replace a file of its name
PutArchive_KeepOld(fs, f, d) ==
    fs \cup FileSet({f} \ Names(fs), TarMtime, d)

\* the data directory after put_archive of the one-member tar that
\* _build_tar makes of the name f and the bytes d
PutArchive(fs, f, d) == Without(fs, {f}) \cup FileSet({f}, TarMtime, d)

\* `base64.b64decode(content_base64)`, then
\* `container.put_archive("/mnt/data", tar_bytes)`
UploadPut(t) ==
    /\ pc[t] = "u_put"
    /\ IF ~B64Valid(content[t])
       THEN Finish(t, "invalid_content") /\ UNCHANGED containers
       ELSE \/ /\ Running(ctr[t])
               /\ containers' = [containers EXCEPT ![ctr[t]].files =
                                    PutArchive(@, filename[t],
                                               B64Decode(content[t]))]
               /\ Finish(t, "uploaded")
            \/ \E e \in EngineExc :
                  /\ Finish(t, "raise")
                  /\ UNCHANGED containers
    /\ UNCHANGED <<registry, held, nlocks, now, expired, ops, startup, vcall>>

upload(t) == UploadTest(t) \/ UploadPut(t)

\* ---------------------------------------------------------------- list_files
\* mutant of ListCheck: the session test is left out
ListCheck_NoCheck(t) ==
    /\ pc[t] = "l_chk"
    /\ Goto(t, "l_get")
    /\ UNCHANGED <<registry, held, nlocks, containers, now, expired, ops,
                   startup, vcall>>

\* `if session_id not in self._sessions`
ListCheck(t) ==
    /\ pc[t] = "l_chk"
    /\ IF sessions[sid[t]] = NoCtr
       THEN Finish(t, "session_not_found")
       ELSE Goto(t, "l_get")
    /\ UNCHANGED <<registry, held, nlocks, containers, now, expired, ops,
                   startup, vcall>>

\* `container = self._sessions[session_id]`
ListGet(t) ==
    /\ pc[t] = "l_get"
    /\ IF sessions[sid[t]] = NoCtr
       THEN Finish(t, "raise")
       ELSE GotoWith(t, "l_touch", sessions[sid[t]])
    /\ UNCHANGED <<registry, held, nlocks, containers, now, expired, ops,
                   startup, vcall>>

\* `self._last_accessed[session_id] = time.monotonic()`
ListTouch(t) ==
    /\ pc[t] = "l_touch"
    /\ last_accessed' = [last_accessed EXCEPT ![sid[t]] = now]
    /\ Goto(t, "l_snap")
    /\ UNCHANGED <<sessions, locks, held, nlocks, containers, now, expired,
                   ops, startup, vcall>>

\* the loop of list_files over the items of the snapshot: the file names of
\* the ArtifactInfo list
RECURSIVE Entries(_)
Entries(items) ==
    IF items = <<>> THEN <<>>
    ELSE <<Head(items).name>> \o Entries(Tail(items))

\* mutant of ListSnapshot: the loop runs twice over the snapshot
ListSnapshot_Twice(t) ==
    /\ pc[t] = "l_snap"
    /\ \/ /\ Running(ctr[t])
          /\ \E ec \in FindExits(ctr[t]) :
                \E items \in Orders(snapshot_files(ctr[t], ec)) :
                   Return(t, "listing", Entries(items) \o Entries(items))
       \/ \E e \in EngineExc : Finish(t, "raise")
    /\ UNCHANGED <<registry, held, nlocks, containers, now, expired, ops,
                   startup, vcall>>

\* `snapshot = self._snapshot_files(container)`; one ArtifactInfo per item
ListSnapshot(t) ==
    /\ pc[t] = "l_snap"
    /\ \/ /\ Running(ctr[t])
          /\ \E ec \in FindExits(ctr[t]) :
                \E items \in Orders(snapshot_files(ctr[t], ec)) :
                   Return(t, "listing", Entries(items))
       \/ \E e \in EngineExc : Finish(t, "raise")
    /\ UNCHANGED <<registry, held, nlocks, containers, now, expired, ops,
                   startup, vcall>>

list_files(t) == ListCheck(t) \/ ListGet(t) \/ ListTouch(t) \/ ListSnapshot(t)

\* ---------------------------------------------------------------- read_file
\* `if session_id not in self._sessions`, then `_validate_path(path)`
ReadCheck(t) ==
    /\ pc[t] = "r_chk"
    /\ IF sessions[sid[t]] = NoCtr
       THEN Finish(t, "session_not_found")
       ELSE IF ~ValidPath(path[t])
       THEN Finish(t, "invalid_path")
       ELSE Goto(t, "r_get")
    /\ UNCHANGED <<registry, held, nlocks, containers, now, expired, ops,
                   startup, vcall>>

\* `container = self._sessions[session_id]`
ReadGet(t) ==
    /\ pc[t] = "r_get"
    /\ IF sessions[sid[t]] = NoCtr
       THEN Finish(t, "raise")
       ELSE GotoWith(t, "r_touch", sessions[sid[t]])
    /\ UNCHANGED <<registry, held, nlocks, containers, now, expired, ops,
                   startup, vcall>>

\* `self._last_accessed[session_id] = time.monotonic()`
ReadTouch(t) ==
    /\ pc[t] = "r_touch"
    /\ last_accessed' = [last_accessed EXCEPT ![sid[t]] = now]
    /\ Goto(t, "r_arch")
    /\ UNCHANGED <<sessions, locks, held, nlocks, containers, now, expired,
                   ops, startup, vcall>>

\* the regular files of container c: those of its data directory and the
\* files of the image
HasFile(c, p) ==
    \/ Norm(p) = ImageFile
    \/ /\ Parent(Norm(p)) = DataDir
       /\ PathName(Norm(p)) \in Names(containers[c].files)

\* _extract_from_tar of the archive of p: the bytes of the file (one byte
\* 255 for the file of the image); the first member of the archive of a
\* directory is the directory, for which extractfile gives None: b""
FileData(c, p) ==
    IF IsDir(p) THEN <<>>
    ELSE IF Norm(p) = ImageFile THEN <<255>>
    ELSE (CHOOSE r \in containers[c].files : r.name = PathName(Norm(p))).data

\* mutant of TooLarge: a file of exactly the limit is refused
TooLarge_AtLimit(n) == n >= max_artifact_read_bytes

\* `size > self._config.max_artifact_read_bytes`
TooLarge(n) == n > max_artifact_read_bytes

\* the result of read_file for the extracted bytes d: artifact_too_large
\* with size_bytes, or the ReadArtifactResult with size_bytes and
\* content_base64 = b64encode(d)
ReadResult(t, d) ==
    IF TooLarge(Len(d))
    THEN Reply(t, "artifact_too_large", <<>>, Len(d), <<>>)
    ELSE Reply(t, "read", <<>>, Len(d), B64Encode(d))

\* `container.get_archive(path)` with the path as the caller gave it, a
\* file or a directory of the container: every exception of the call becomes
\* not_found. `_extract_from_tar(tar_stream)` follows outside the try: when
\* reading the stream or the archive fails, the exception leaves read_file.
ReadArchive(t) ==
    /\ pc[t] = "r_arch"
    /\ \/ /\ Running(ctr[t])
          /\ IF HasFile(ctr[t], path[t]) \/ IsDir(path[t])
             THEN \/ ReadResult(t, FileData(ctr[t], path[t]))
                  \/ Finish(t, "raise")
             ELSE Finish(t, "not_found")
       \/ \E e \in EngineExc : Finish(t, "not_found")
    /\ UNCHANGED <<registry, held, nlocks, containers, now, expired, ops,
                   startup, vcall>>

read_file(t) == ReadCheck(t) \/ ReadGet(t) \/ ReadTouch(t) \/ ReadArchive(t)

\* ---------------------------------------------------------------- http
\* download_artifact of http_server.py; the result is the status code, the
\* body is the data of the reply

\* `if session_id not in session_manager.sessions`: 404
HttpCheck(t) ==
    /\ pc[t] = "h_chk"
    /\ IF sessions[sid[t]] = NoCtr
       THEN Finish(t, "404")
       ELSE Goto(t, "h_get")
    /\ UNCHANGED <<registry, held, nlocks, containers, now, expired, ops,
                   startup, vcall>>

\* `container = session_manager.sessions[session_id]`: a KeyError leaves the
\* route as an exception, which the server answers with 500
HttpGet(t) ==
    /\ pc[t] = "h_get"
    /\ IF sessions[sid[t]] = NoCtr
       THEN Finish(t, "500")
       ELSE GotoWith(t, "h_arch", sessions[sid[t]])
    /\ UNCHANGED <<registry, held, nlocks, containers, now, expired, ops,
                   startup, vcall>>

\* `container.get_archive(f"/mnt/data/{filename}")`: every exception of the
\* call is a 404; otherwise the bytes of the first member are the body of a
\* 200. Reading the stream and the archive is outside the try: when it
\* fails, the exception leaves the route and the server answers with 500.
HttpArchive(t) ==
    /\ pc[t] = "h_arch"
    /\ \/ /\ Running(ctr[t])
          /\ IF HasFile(ctr[t], DataPath(filename[t]))
             THEN \/ Reply(t, "200", <<>>,
                           Len(FileData(ctr[t], DataPath(filename[t]))),
                           FileData(ctr[t], DataPath(filename[t])))
                  \/ Finish(t, "500")
             ELSE Finish(t, "404")
       \/ \E e \in EngineExc : Finish(t, "404")
    /\ UNCHANGED <<registry, held, nlocks, containers, now, expired, ops,
                   startup, vcall>>

download_artifact(t) == HttpCheck(t) \/ HttpGet(t) \/ HttpArchive(t)

\* ---------------------------------------------------------------- close
\* `if session_id not in self._sessions: return session_not_found`
CloseCheck(t) ==
    /\ pc[t] = "c_chk"
    /\ IF sessions[sid[t]] = NoCtr
       THEN Finish(t, "session_not_found")
       ELSE Goto(t, "c_pop1")
    /\ UNCHANGED <<registry, held, nlocks, containers, now, expired, ops,
                   startup, vcall>>

\* mutant of ClosePopSession: the container is read, the entry is kept
ClosePopSession_NoPop(t) ==
    /\ pc[t] = "c_pop1"
    /\ IF sessions[sid[t]] = NoCtr
       THEN Finish(t, "raise")
       ELSE GotoWith(t, "c_pop2", sessions[sid[t]])
    /\ UNCHANGED <<registry, held, nlocks, containers, now, expired, ops,
                   startup, vcall>>

\* `container = self._sessions.pop(session_id)`: KeyError when absent
ClosePopSession(t) ==
    /\ pc[t] = "c_pop1"
    /\ IF sessions[sid[t]] = NoCtr
       THEN Finish(t, "raise") /\ UNCHANGED sessions
       ELSE /\ sessions' = [sessions EXCEPT ![sid[t]] = NoCtr]
            /\ GotoWith(t, "c_pop2", sessions[sid[t]])
    /\ UNCHANGED <<last_accessed, locks, held, nlocks, containers, now,
                   expired, ops, startup, vcall>>

\* `self._last_accessed.pop(session_id, None)`
ClosePopAccess(t) ==
    /\ pc[t] = "c_pop2"
    /\ last_accessed' = [last_accessed EXCEPT ![sid[t]] = NoTime]
    /\ Goto(t, "c_pop3")
    /\ UNCHANGED <<sessions, locks, held, nlocks, containers, now, expired,
                   ops, startup, vcall>>

\* `self._locks.pop(session_id, None)`
ClosePopLock(t) ==
    /\ pc[t] = "c_pop3"
    /\ locks' = [locks EXCEPT ![sid[t]] = NoLock]
    /\ Goto(t, "c_rm")
    /\ UNCHANGED <<sessions, last_accessed, held, nlocks, containers, now,
                   expired, ops, startup, vcall>>

Removed(c) ==
    [sid |-> containers[c].sid, status |-> "removed", fstime |-> 0,
     files |-> {}]

\* `container.remove(force=True, v=True)`; a failing call may or may not
\* have removed the container
CloseRemove(t) ==
    /\ pc[t] = "c_rm"
    /\ \/ /\ Live(ctr[t])
          /\ containers' = [containers EXCEPT ![ctr[t]] = Removed(ctr[t])]
          /\ Finish(t, "closed")
       \/ \E e \in EngineExc :
             /\ Finish(t, MapDockerError(e))
             /\ \/ UNCHANGED containers
                \/ /\ Live(ctr[t])
                   /\ containers' = [containers EXCEPT
                                        ![ctr[t]] = Removed(ctr[t])]
    /\ UNCHANGED <<registry, held, nlocks, now, expired, ops, startup, vcall>>

close(t) ==
    \/ CloseCheck(t) \/ ClosePopSession(t) \/ ClosePopAccess(t)
    \/ ClosePopLock(t) \/ CloseRemove(t)

\* ---------------------------------------------------------------- reaper
\* mutant of ExpiredIds: an idle time equal to the ttl counts as expired
ExpiredIds_AtTtl ==
    {s \in AccessKeys : now - last_accessed[s] >= session_ttl}

\* _expire_idle_sessions, first loop: the ids idle for more than ttl_s
ExpiredIds ==
    {s \in AccessKeys : now - last_accessed[s] > session_ttl}

\* the reaper wakes from time.sleep and scans last_accessed
ReaperScan ==
    /\ pc[Reaper] = "r_wait"
    /\ boot = "serve"
    /\ expired' = ExpiredIds
    /\ pc' = [pc EXCEPT ![Reaper] = "r_next"]
    /\ ret' = NoRet
    /\ UNCHANGED <<registry, held, nlocks, containers, now, locals, ops,
                   startup, vcall>>

\* second loop: `session_manager.close(sid)` for the next expired id, or
\* back to sleep when none is left
ReaperNext ==
    /\ pc[Reaper] = "r_next"
    /\ IF expired = {}
       THEN /\ pc' = [pc EXCEPT ![Reaper] = "r_wait"]
            /\ UNCHANGED <<sid, expired>>
       ELSE \E s \in expired :
               /\ expired' = expired \ {s}
               /\ sid' = [sid EXCEPT ![Reaper] = s]
               /\ pc' = [pc EXCEPT ![Reaper] = "c_chk"]
    /\ ret' = NoRet
    /\ UNCHANGED <<registry, held, nlocks, containers, now, op, ow, filename,
                   content, path, ctr, lk, res, run, ops, startup, vcall>>

\* ---------------------------------------------------------------- startup
\* main(): remove_orphan_containers, then the HTTP thread, the reaper and
\* mcp.run(). Every container of the engine carries the label
\* app=mcp-code-sandbox, so the list call returns the live ones.
LiveList == SelectSeq([c \in 1..Len(containers) |-> c], Live)

\* `docker_client.containers.list(all=True, filters=...)`; when the call
\* raises, main() ends with the exception
OrphanList ==
    /\ boot = "list"
    /\ \/ boot' = "sweep" /\ orphans' = LiveList
       \/ boot' = "exit" /\ UNCHANGED orphans
    /\ UNCHANGED <<registry, held, nlocks, containers, now, pc, locals,
                   expired, ops, ret, removed, vcall>>

\* one round of the loop: `container.remove(force=True)`; `removed += 1`
\* under contextlib.suppress(Exception): a removal that raises is skipped,
\* and a failing call may or may not have removed the container
OrphanRemove ==
    /\ boot = "sweep"
    /\ orphans # <<>>
    /\ \/ /\ containers' = [containers EXCEPT
                               ![Head(orphans)] = Removed(Head(orphans))]
          /\ removed' = removed + 1
       \/ /\ UNCHANGED removed
          /\ \/ UNCHANGED containers
             \/ containers' = [containers EXCEPT
                                  ![Head(orphans)] = Removed(Head(orphans))]
    /\ orphans' = Tail(orphans)
    /\ UNCHANGED <<registry, held, nlocks, now, pc, locals, expired, ops,
                   ret, boot, vcall>>

\* `return removed`; the threads are started and mcp.run() serves the tools
OrphanServe ==
    /\ boot = "sweep"
    /\ orphans = <<>>
    /\ boot' = "serve"
    /\ UNCHANGED <<registry, held, nlocks, containers, now, pc, locals,
                   expired, ops, ret, orphans, removed, vcall>>

\* a container a previous run of the server left behind
Orphan(s) == [sid |-> s, status |-> "running", fstime |-> 0, files |-> {}]

\* the engine at process start: up to MaxOrphans containers of earlier
\* sessions, with distinct names
OrphanLists ==
    {[i \in DOMAIN q |-> Orphan(q[i])] :
        q \in {q \in UNION {[1..m -> SIDs] : m \in 0..MaxOrphans} :
                 \A i, j \in DOMAIN q : i # j => q[i] # q[j]}}

\* the process before main() runs
InitBoot ==
    /\ sessions = [s \in SIDs |-> NoCtr]
    /\ last_accessed = [s \in SIDs |-> NoTime]
    /\ locks = [s \in SIDs |-> NoLock]
    /\ held = {}
    /\ nlocks = 0
    /\ containers \in OrphanLists
    /\ now = 0
    /\ pc = [t \in Threads |-> IF t = Reaper THEN "r_wait" ELSE "idle"]
    /\ op = [t \in Threads |-> IF t = Reaper THEN "close" ELSE "none"]
    /\ sid = [t \in Threads |-> NoSid]
    /\ ctr = [t \in Threads |-> NoCtr]
    /\ lk = [t \in Threads |-> NoLock]
    /\ ow = [t \in Threads |-> FALSE]
    /\ res = [t \in Threads |-> "none"]
    /\ filename = [t \in Threads |-> "none"]
    /\ content = [t \in Threads |-> NoContent]
    /\ path = [t \in Threads |-> NoPath]
    /\ run = [t \in Threads |-> NoRun]
    /\ expired = {}
    /\ ops = 0
    /\ ret = NoRet
    /\ boot = "list"
    /\ orphans = <<>>
    /\ removed = 0
    /\ vcall = NoCall

\* ---------------------------------------------------------------- validators
\* the size validators of validation.py, which the tool wrappers call with
\* the limits of the configuration before they call the SessionManager

\* the characters of the code texts, as code points: "a", U+00E9, U+20AC
\* and U+1F600
CodePoints == {97, 233, 8364, 128512}

CodeTexts == UNION {[1..k -> CodePoints] : k \in 0..MaxCode}

\* the bytes of the UTF-8 encoding of one character
Utf8Bytes(cp) ==
    IF cp < 128 THEN 1
    ELSE IF cp < 2048 THEN 2
    ELSE IF cp < 65536 THEN 3
    ELSE 4

\* `code.encode("utf-8")`, as the sequence of the lengths of its characters
Encoded(code) == [i \in DOMAIN code |-> Utf8Bytes(code[i])]

RECURSIVE Sum(_)
Sum(s) == IF s = <<>> THEN 0 ELSE Head(s) + Sum(Tail(s))

\* mutant of CodeSize: the characters are counted
CodeSize_Chars(code) == Len(code)

\* `len(code.encode("utf-8"))`
CodeSize(code) == Sum(Encoded(code))

\* validate_code_size with max_code_bytes = m: the error kind, or "ok" for
\* None
validate_code_size(code, m) ==
    IF CodeSize(code) > m THEN "code_too_large" ELSE "ok"

\* `max_b64_len = int(config.max_upload_bytes * 4 / 3) + 4`
MaxB64Len(m) == (m * 4) \div 3 + 4

\* validate_upload_size with max_upload_bytes = m
validate_upload_size(content_base64, m) ==
    IF Len(content_base64) > MaxB64Len(m) THEN "upload_too_large" ELSE "ok"

\* _FILENAME_RE.match(f) for the pattern ^[a-zA-Z0-9._-]{1,255}$ of Python's
\* re (the same pattern in validation.py and in session.py); f is the
\* sequence of the code points of the name. The class takes 1 to 255
\* characters, and `$` matches at the end of the string and also just before
\* a newline that ends the string.
FILENAME_RE(f) ==
    \E k \in {Len(f) - 1, Len(f)} \cap 1..255 :
        /\ \A i \in 1..k :
              f[i] \in (97..122) \cup (65..90) \cup (48..57) \cup {46, 95, 45}
        /\ k = Len(f) - 1 => f[Len(f)] = 10

\* validation.validate_filename
validate_filename(f) ==
    IF ~FILENAME_RE(f) THEN "invalid_filename"
    ELSE IF \E i \in 1..(Len(f) - 1) : f[i] = 46 /\ f[i + 1] = 46
         THEN "invalid_path"
         ELSE "ok"

\* session._validate_filename, the copy that SessionManager.upload calls
SM_validate_filename(f) ==
    IF ~FILENAME_RE(f) THEN "invalid_filename"
    ELSE IF \E i \in 1..(Len(f) - 1) : f[i] = 46 /\ f[i + 1] = 46
         THEN "invalid_path"
         ELSE "ok"

\* the calls of the validators: every limit with every code text, and with
\* the encoding of every content of up to one byte more than the largest
\* limit; the exceptions that are mapped; and the file names of up to MaxName
\* characters over "a", ".", "/" and newline, with three long names
ValidatorCalls ==
    {[NoCall EXCEPT !.fn = "validate_code_size", !.limit = m, !.arg = c,
                    !.out = "pending"] :
        m \in 0..MaxLimit, c \in CodeTexts}
    \cup {[NoCall EXCEPT !.fn = "validate_upload_size", !.limit = m,
                         !.arg = p, !.out = "pending"] :
            m \in 0..MaxLimit, p \in Encodings(MaxLimit + 1)}
    \cup {[NoCall EXCEPT !.fn = "_map_docker_error", !.exc = e,
                         !.out = "pending"] :
            e \in EngineExc \cup {"ImageNotFound", "KeyError"}}
    \cup {[NoCall EXCEPT !.fn = fn, !.arg = f, !.out = "pending"] :
            fn \in {"validate_filename", "_validate_filename"},
            f \in UNION {[1..k -> {97, 46, 47, 10}] : k \in 0..MaxName}
                  \cup {[i \in 1..255 |-> 97], [i \in 1..256 |-> 97],
                        [i \in 1..256 |-> IF i = 256 THEN 10 ELSE 97]}}

\* sandbox_run_python calls validate_code_size(code, config)
ValidateCode ==
    /\ vcall.fn = "validate_code_size"
    /\ vcall.out = "pending"
    /\ vcall' = [vcall EXCEPT !.out = validate_code_size(vcall.arg, vcall.limit)]
    /\ UNCHANGED <<registry, held, nlocks, containers, now, pc, locals,
                   expired, ops, ret, startup>>

\* sandbox_upload_file calls validate_upload_size(content_base64, config)
ValidateUpload ==
    /\ vcall.fn = "validate_upload_size"
    /\ vcall.out = "pending"
    /\ vcall' = [vcall EXCEPT
                    !.out = validate_upload_size(vcall.arg, vcall.limit)]
    /\ UNCHANGED <<registry, held, nlocks, containers, now, pc, locals,
                   expired, ops, ret, startup>>

\* SessionManager.upload calls _validate_filename(filename); the unit tests
\* call validation.validate_filename(name)
ValidateFilename ==
    /\ vcall.fn \in {"validate_filename", "_validate_filename"}
    /\ vcall.out = "pending"
    /\ vcall' = [vcall EXCEPT
                    !.out = IF vcall.fn = "validate_filename"
                            THEN validate_filename(vcall.arg)
                            ELSE SM_validate_filename(vcall.arg)]
    /\ UNCHANGED <<registry, held, nlocks, containers, now, pc, locals,
                   expired, ops, ret, startup>>

\* an `except Exception as exc` handler of the SessionManager calls
\* self._map_docker_error(exc, session_id)
MapError ==
    /\ vcall.fn = "_map_docker_error"
    /\ vcall.out = "pending"
    /\ vcall' = [vcall EXCEPT !.out = MapDockerError(vcall.exc)]
    /\ UNCHANGED <<registry, held, nlocks, containers, now, pc, locals,
                   expired, ops, ret, startup>>

\* a broker that is about to validate the arguments of one tool call
InitV ==
    /\ sessions = [s \in SIDs |-> NoCtr]
    /\ last_accessed = [s \in SIDs |-> NoTime]
    /\ locks = [s \in SIDs |-> NoLock]
    /\ held = {}
    /\ nlocks = 0
    /\ containers = <<>>
    /\ now = 0
    /\ pc = [t \in Threads |-> IF t = Reaper THEN "r_wait" ELSE "idle"]
    /\ op = [t \in Threads |-> IF t = Reaper THEN "close" ELSE "none"]
    /\ sid = [t \in Threads |-> NoSid]
    /\ ctr = [t \in Threads |-> NoCtr]
    /\ lk = [t \in Threads |-> NoLock]
    /\ ow = [t \in Threads |-> FALSE]
    /\ res = [t \in Threads |-> "none"]
    /\ filename = [t \in Threads |-> "none"]
    /\ content = [t \in Threads |-> NoContent]
    /\ path = [t \in Threads |-> NoPath]
    /\ run = [t \in Threads |-> NoRun]
    /\ expired = {}
    /\ ops = 0
    /\ ret = NoRet
    /\ boot = "serve"
    /\ orphans = <<>>
    /\ removed = 0
    /\ vcall \in ValidatorCalls

NextV == ValidateCode \/ ValidateUpload \/ MapError \/ ValidateFilename

SpecV == InitV /\ [][NextV]_vars

\* ---------------------------------------------------------------- system
\* two client threads on a serving broker
Next ==
    \/ \E t \in Clients, c \in Calls(SIDs, Files1, Contents1, Paths1) : Start(t, c)
    \/ \E t \in Clients, k \in {"invalid_filename", "invalid_path"} :
          UploadInvalidName(t, k)
    \/ \E t \in Clients : get_or_create(t)
    \/ \E t \in Clients : execute(t, GuestRuns1)
    \/ \E t \in Clients : upload(t)
    \/ \E t \in Clients : list_files(t)
    \/ \E t \in Clients : read_file(t)
    \/ \E t \in Clients : close(t)

Spec == Init /\ [][Next]_vars

\* the broker with its reaper thread and one client thread
Client1 == {"t1"}

NextR ==
    \/ Tick
    \/ \E t \in Client1, c \in Calls(SIDs, Files1, Contents1, Paths1) : Start(t, c)
    \/ \E t \in Client1, k \in {"invalid_filename", "invalid_path"} :
          UploadInvalidName(t, k)
    \/ \E t \in Client1 : get_or_create(t)
    \/ \E t \in Client1 : execute(t, GuestRuns1)
    \/ \E t \in Client1 : upload(t)
    \/ \E t \in Client1 : list_files(t)
    \/ \E t \in Client1 : read_file(t)
    \/ \E t \in Client1 \cup {Reaper} : close(t)
    \/ ReaperScan
    \/ ReaperNext

SpecR == Init /\ [][NextR]_vars

\* the broker with threads that are scheduled again and again: the clock
\* advances, the reaper wakes from every sleep and goes on with its tick,
\* and a client thread finishes the call it is in
SpecRF ==
    /\ SpecR
    /\ WF_vars(Tick)
    /\ WF_vars(ReaperScan)
    /\ WF_vars(ReaperNext)
    /\ WF_vars(close(Reaper))
    /\ WF_vars(\E t \in Client1 :
                  \/ get_or_create(t) \/ execute(t, GuestRuns1) \/ upload(t)
                  \/ list_files(t) \/ read_file(t) \/ close(t))

\* the steps of one client thread that no other thread disturbs, with the
\* session ids IDS, file names FS, contents CS, paths PS and guest runs G. ExecSetLock is not
\* among them: its position is entered only when another thread has popped
\* the lock entry.
Alone(t, IDS, FS, CS, PS, G) ==
    \/ \E c \in Calls(IDS, FS, CS, PS) : Start(t, c)
    \/ \E k \in {"invalid_filename", "invalid_path"} : UploadInvalidName(t, k)
    \/ get_or_create(t)
    \/ ExecGetLock(t) \/ ExecAcquire(t) \/ ExecSnapshot(t)
    \/ ExecRun(t, G) \/ ExecAfter(t) \/ ExecRelease(t)
    \/ upload(t)
    \/ list_files(t)
    \/ read_file(t)
    \/ close(t)

\* one client thread on a serving broker, with every input; the clock stands
Next1 ==
    \/ \E t \in Client1, o \in ToolOps :
          \E k \in WrapperErrors(o) : WrapperReject(t, o, k)
    \/ \E t \in Client1 : Alone(t, SIDs1, Files, Contents, Paths, GuestRuns)

Spec1 == Init /\ [][Next1]_vars

\* a serving broker one clock unit after upload(a, f, content) made session
\* a at time 0: the container runs and holds f, the three maps have the id
InitT ==
    /\ sessions = [s \in SIDs |-> IF s \in SIDs1 THEN 1 ELSE NoCtr]
    /\ last_accessed = [s \in SIDs |-> IF s \in SIDs1 THEN 0 ELSE NoTime]
    /\ locks = [s \in SIDs |-> IF s \in SIDs1 THEN 1 ELSE NoLock]
    /\ held = {}
    /\ nlocks = 1
    /\ containers = <<[sid |-> "a", status |-> "running", fstime |-> 0,
                       files |-> PutArchive({}, "f", <<97>>)]>>
    /\ now = 1
    /\ pc = [t \in Threads |-> IF t = Reaper THEN "r_wait" ELSE "idle"]
    /\ op = [t \in Threads |-> IF t = Reaper THEN "close" ELSE "none"]
    /\ sid = [t \in Threads |-> NoSid]
    /\ ctr = [t \in Threads |-> NoCtr]
    /\ lk = [t \in Threads |-> NoLock]
    /\ ow = [t \in Threads |-> FALSE]
    /\ res = [t \in Threads |-> "none"]
    /\ filename = [t \in Threads |-> "none"]
    /\ content = [t \in Threads |-> NoContent]
    /\ path = [t \in Threads |-> NoPath]
    /\ run = [t \in Threads |-> NoRun]
    /\ expired = {}
    /\ ops = 0
    /\ ret = NoRet
    /\ boot = "serve"
    /\ orphans = <<>>
    /\ removed = 0
    /\ vcall = NoCall

SpecT == InitT /\ [][Next1]_vars

\* the process from its start: main() with its orphan sweep, then one
\* client thread
NextBoot ==
    \/ OrphanList \/ OrphanRemove \/ OrphanServe
    \/ \E t \in Client1 : Alone(t, SIDs1, Files1, Contents1, Paths1, GuestRuns1)

SpecBoot == InitBoot /\ [][NextBoot]_vars

\* the inputs of the specification of the file contents: every content of
\* up to MaxBytes bytes, and guest programs that write to one of their
\* streams
ContentsD == Encodings(MaxBytes) \cup {BadContent}

GuestRunsD ==
    {g \in [exit : ExitCodes, out : Streams, err : Streams,
             prog : {<<>>, <<[k |-> "write", name |-> "f"]>>}] :
        /\ g.out = <<>> \/ g.err = <<>>
        /\ g.prog = <<>> \/ (g.out = <<>> /\ g.err = <<>>)}

\* a serving broker that accepts MaxOpsD more calls
InitD ==
    /\ sessions = [s \in SIDs |-> NoCtr]
    /\ last_accessed = [s \in SIDs |-> NoTime]
    /\ locks = [s \in SIDs |-> NoLock]
    /\ held = {}
    /\ nlocks = 0
    /\ containers = <<>>
    /\ now = 0
    /\ pc = [t \in Threads |-> IF t = Reaper THEN "r_wait" ELSE "idle"]
    /\ op = [t \in Threads |-> IF t = Reaper THEN "close" ELSE "none"]
    /\ sid = [t \in Threads |-> NoSid]
    /\ ctr = [t \in Threads |-> NoCtr]
    /\ lk = [t \in Threads |-> NoLock]
    /\ ow = [t \in Threads |-> FALSE]
    /\ res = [t \in Threads |-> "none"]
    /\ filename = [t \in Threads |-> "none"]
    /\ content = [t \in Threads |-> NoContent]
    /\ path = [t \in Threads |-> NoPath]
    /\ run = [t \in Threads |-> NoRun]
    /\ expired = {}
    /\ ops = MaxOps - MaxOpsD
    /\ ret = NoRet
    /\ boot = "serve"
    /\ orphans = <<>>
    /\ removed = 0
    /\ vcall = NoCall

\* one client thread of the tools and the thread of the HTTP server, which
\* main() starts next to them and which serves the route, on a serving
\* broker; one file name, no clock
NextD ==
    \/ \E t \in Client1 :
          Alone(t, SIDs1, Files1, ContentsD, Paths1, GuestRunsD)
    \/ \E t \in Clients \ Client1, c \in Downloads(SIDs1, Files1) : Start(t, c)
    \/ \E t \in Clients \ Client1 : download_artifact(t)

SpecD == InitD /\ [][NextD]_vars

\* two client threads that call execute, the first on the session id a,
\* the second on a or b, and list_files on the id a, with guest programs
\* that end by themselves with exit code 0,
\* print nothing and do nothing, write the file f, or write it and then
\* delete it
NextX ==
    \/ \E t \in Clients :
          \E c \in {x \in Calls(SIDs, Files1, Contents1, Paths1) :
                       \/ /\ x.op = "execute" /\ x.session_id \in SIDs
                          /\ t \in Client1 => x.session_id \in SIDs1
                       \/ x.op = "list" /\ x.session_id \in SIDs1} :
             Start(t, c)
    \/ \E t \in Clients : get_or_create(t)
    \/ \E t \in Clients :
          execute(t, {g \in GuestRuns :
                         /\ g.exit = 0 /\ g.err = <<>>
                         /\ g.prog \in
                               {<<>>,
                                <<[k |-> "write", name |-> "f"]>>,
                                <<[k |-> "write", name |-> "f"],
                                  [k |-> "delete", name |-> "f"]>>}})
    \/ \E t \in Clients : list_files(t)

SpecX == Init /\ [][NextX]_vars

\* ================================================================ claims

\* the execute calls in their locked section on session s
InFlightOn(s) == {t \in Threads : InFlight(t) /\ sid[t] = s}

\* C1: at most one execute call per session id is between lock.acquire and
\* lock.release at any time.
C1_SingleFlight ==
    \A s \in SIDs : Cardinality(InFlightOn(s)) <= 1

\* C2: a close that starts while an execute on the same session is in flight
\* returns session_busy (and so leaves registry entry and container alone).
C2_CloseBusyWhileInFlight ==
    [][\A t \in Clients :
          (/\ pc[t] = "c_chk" /\ pc'[t] # "c_chk"
           /\ InFlightOn(sid[t]) # {})
          => (ret'.t = t /\ ret'.res = "session_busy"
              /\ UNCHANGED <<sessions, last_accessed, locks, containers>>)]_vars

\* C3: a session with an execute inside its locked section still has its
\* registry entry and its running container (the reaper never removes them).
C3_ReaperSparesInFlight ==
    \A t \in Threads :
        InFlight(t) => (sessions[sid[t]] = ctr[t] /\ Running(ctr[t]))

\* C4: in every state the three registry maps have the same key set.
C4_SameKeySets ==
    SessionKeys = AccessKeys /\ AccessKeys = LockKeys

\* C5: the registry never holds more than max_sessions sessions.
C5_AtMostMaxSessions ==
    Cardinality(SessionKeys) <= max_sessions

\* C6: at the limit, get_or_create with an unknown id returns max_sessions,
\* creates no container and leaves the registry unchanged; with an id that is
\* in the registry it takes the reuse branch and returns that id and its
\* container, whatever the number of sessions.
C6_LimitAndReuse ==
    [][\A t \in Clients :
          /\ (/\ pc[t] = "g_len" /\ pc'[t] # "g_len"
              /\ Cardinality(SessionKeys) >= max_sessions)
             => (/\ ret'.t = t /\ ret'.op = op[t] /\ ret'.sid = sid[t]
                 /\ ret'.res = "max_sessions"
                 /\ UNCHANGED <<sessions, last_accessed, locks, containers>>)
          /\ (/\ pc[t] = "g_chk" /\ pc'[t] # "g_chk"
              /\ sessions[sid[t]] # NoCtr)
             => pc'[t] = "g_touch"
          /\ (/\ pc[t] = "g_ret" /\ pc'[t] # "g_ret"
              /\ sessions[sid[t]] # NoCtr)
             => (/\ pc'[t] = AfterGoc(t) /\ ret' = NoRet
                 /\ sid'[t] = sid[t] /\ ctr'[t] = sessions[sid[t]]
                 /\ UNCHANGED <<sessions, containers>>)]_vars

\* C6 witness: one call was just refused with max_sessions for an unknown id
\* while another call is returning the container of a registered id.
C6_Witness ==
    /\ ret.res = "max_sessions"
    /\ sessions[ret.sid] = NoCtr
    /\ Cardinality(SessionKeys) >= max_sessions
    /\ \E u \in Clients : pc[u] = "g_ret" /\ sessions[sid[u]] # NoCtr

\* C7: every session id in the registry has exactly one container named
\* sandbox-<id> / labelled session_id=<id>, the one the registry holds.
C7_OneContainerPerSession ==
    \A s \in SessionKeys : Named(s) = {sessions[s]}

\* C7 witness: an id is registered again, with its second container, after
\* its first container was removed by a close.
C7_Witness ==
    \E s \in SessionKeys :
        /\ sessions[s] > 1
        /\ \E c \in 1..(sessions[s] - 1) :
              containers[c].sid = s /\ containers[c].status = "removed"

\* C8: a close call never ends in an exception: it returns closed,
\* session_not_found or a mapped engine error.
C8_CloseNeverRaises ==
    ret.op = "close" => ret.res # "raise"

\* C9: a closed id is forgotten and can be used again. After close returned
\* for an id, the id is not in the registry; when a later upload or execute
\* on the id reaches containers.create, the container of the closed session
\* (a running container of that name) is no longer in the engine, so that the
\* name sandbox-<id> is free for the new container; and a container that was
\* just created has an empty data directory.
C9_FreshAfterClose ==
    /\ (ret.op = "close" /\ ret.sid \in SIDs /\ ret.res # "raise")
          => sessions[ret.sid] = NoCtr
    /\ \A t \in Clients :
          pc[t] = "g_create"
             => \A c \in Named(sid[t]) : containers[c].status # "running"
    /\ \A c \in 1..Len(containers) :
          containers[c].status = "created" => containers[c].files = {}

EngineErrors == {MapDockerError(e) : e \in EngineExc}

\* C10: when close returns a mapped engine error from the failed removal, the
\* session id is in none of the three registry maps.
C10_GoneAfterFailedRemove ==
    (ret.op = "close" /\ ret.res \in EngineErrors /\ ret.res # "session_not_found")
        => (/\ sessions[ret.sid] = NoCtr
            /\ last_accessed[ret.sid] = NoTime
            /\ locks[ret.sid] = NoLock)

\* C11: one reaper tick calls close on exactly the sessions whose idle time
\* (now minus last access) is strictly greater than the ttl: the scan selects
\* those ids and no other, and the second loop calls close only on selected
\* ids, each once, and sleeps again only when none is left.
C11_ReaperClosesIdleOnly ==
    [][/\ (pc[Reaper] = "r_wait" /\ pc'[Reaper] # "r_wait")
          => \A s \in SIDs :
                s \in expired' <=> (/\ last_accessed[s] # NoTime
                                    /\ now - last_accessed[s] >= session_ttl + 1)
       /\ (pc[Reaper] # "c_chk" /\ pc'[Reaper] = "c_chk")
          => (/\ pc[Reaper] = "r_next"
              /\ sid'[Reaper] \in expired
              /\ expired' = expired \ {sid'[Reaper]})
       /\ (pc[Reaper] = "r_next" /\ pc'[Reaper] = "r_wait") => expired = {}
       /\ pc[Reaper] \notin {"r_wait", "r_next"} => expired' = expired]_vars

\* C11 witness: the reaper is calling close on a session that has been idle
\* for more than the ttl.
C11_Witness ==
    /\ pc[Reaper] = "c_chk"
    /\ last_accessed[sid[Reaper]] # NoTime
    /\ now - last_accessed[sid[Reaper]] > session_ttl

\* C12: when the reaper closes an expired session that has an execute in
\* flight, the close returns session_busy, registry and container stay as
\* they are, and the reaper goes on with the rest of its list.
C12_ReaperDefersBusy ==
    [][(/\ pc[Reaper] = "c_chk" /\ pc'[Reaper] # "c_chk"
        /\ InFlightOn(sid[Reaper]) # {})
       => (/\ ret'.t = Reaper /\ ret'.res = "session_busy"
           /\ pc'[Reaper] = "r_next"
           /\ UNCHANGED <<sessions, last_accessed, locks, containers>>)]_vars

\* the live containers of the engine (all carry the label app=mcp-code-sandbox)
Labelled == {c \in 1..Len(containers) : Live(c)}

\* C13: when main() starts to serve, no labelled container is left, also
\* when a removal of the sweep failed.
C13_SweepLeavesNone ==
    (boot = "serve" /\ ops = 0) => Labelled = {}

\* the results of the operations that leave the session in place
Successes == {"uploaded", "run", "listing", "read"}

\* C14: right after upload, execute, list or read returned its success
\* value, the last access of the session is the current time.
C14_IdleResetOnSuccess ==
    (ret.op \in {"upload", "execute", "list", "read"} /\ ret.res \in Successes)
        => last_accessed[ret.sid] = now

\* C15: read fetches only paths that lead into the directory /mnt/data, and
\* returns content only for such a path.
C15_ReadStaysInDataDir ==
    /\ \A t \in Clients :
          pc[t] = "r_arch" => Parent(Norm(path[t])) = DataDir
    /\ (ret.op = "read" /\ ret.res = "read")
          => Parent(Norm(ret.path)) = DataDir

\* C16: no SessionManager operation ends in an exception: every engine
\* failure comes back as a value.
C16_NoExceptionEscapes ==
    ret.op \in ToolOps => ret.res # "raise"

\* the error kinds of the input errors
InputErrors ==
    {"invalid_session_id", "invalid_filename", "invalid_path",
     "invalid_content", "code_too_large", "upload_too_large"}

\* C17: an upload or execute that returns an input error has not obtained
\* or created a container (so it made no engine call), and its last step
\* changes neither the registry nor the engine.
C17_InputErrorsBeforeEngine ==
    [][\A t \in Clients :
          (/\ ret'.t = t /\ ret'.op \in {"upload", "execute"}
           /\ ret'.res \in InputErrors)
          => (/\ ctr[t] = NoCtr
              /\ UNCHANGED <<sessions, last_accessed, locks, containers>>)]_vars

\* C18: an execute whose timeout wrapper exits with 124 returns a Run with
\* exit_code -1 and a stderr that ends with the timeout note; every other
\* exit code is returned as it is, and stderr then holds no note.
C18_TimeoutNormalized ==
    /\ \A t \in Clients :
          (pc[t] = "e_rel" /\ run[t].raw = 124) => res[t] = "run"
    /\ (ret.op = "execute" /\ ret.res = "run")
          => IF ret.run.raw = 124
             THEN /\ ret.run.exit_code = -1
                  /\ ret.run.stderr # <<>>
                  /\ ret.run.stderr[Len(ret.run.stderr)] = TimeoutNote
             ELSE /\ ret.run.exit_code = ret.run.raw
                  /\ \A i \in DOMAIN ret.run.stderr :
                        ret.run.stderr[i] # TimeoutNote

\* C18 witness: a run that timed out after writing more than
\* max_output_bytes to stderr has returned; the note follows the cut stream.
C18_Witness ==
    /\ ret.op = "execute" /\ ret.res = "run"
    /\ ret.run.raw = 124
    /\ Len(ret.run.stderr) = max_output_bytes + 1

\* C19: an execute with a non-zero exit code returns no artifact, whatever
\* the run did to the data directory; a list returns every file of the data
\* directory, so the files of the failed run are in a later listing.
C19_NoArtifactsOnFailure ==
    /\ (ret.op = "execute" /\ ret.res = "run" /\ ret.run.exit_code # 0)
          => ret.run.artifacts = <<>>
    /\ (ret.op = "list" /\ ret.res = "listing" /\ sessions[ret.sid] # NoCtr)
          => {ret.listing[i] : i \in DOMAIN ret.listing}
                = Names(containers[sessions[ret.sid]].files)

\* C19 witness: a run that wrote a file and ended with a non-zero exit code
\* has returned.
C19_Witness ==
    /\ ret.op = "execute" /\ ret.res = "run"
    /\ ret.run.exit_code # 0
    /\ sessions[ret.sid] # NoCtr
    /\ \E r \in snapshot_files(sessions[ret.sid], 0) : r \notin ret.run.before

\* C20: for exit code 0 the artifact list holds a file iff its (name, mtime)
\* is in the after-snapshot and not in the before-snapshot; the
\* after-snapshot is the data directory the run left; no name is listed
\* twice.
C20_ArtifactsAreTheDiff ==
    (ret.op = "execute" /\ ret.res = "run" /\ ret.run.exit_code = 0)
        => LET art == ret.run.artifacts IN
           /\ sessions[ret.sid] # NoCtr
                 => ret.run.after = snapshot_files(sessions[ret.sid], 0)
           /\ \A f \in Files :
                 (\E i \in DOMAIN art : art[i] = f)
                 <=> (\E a \in ret.run.after \ ret.run.before : a.name = f)
           /\ \A i, j \in DOMAIN art : i # j => art[i] # art[j]

\* C20 witness: a run with exit code 0 has rewritten one file, left another
\* file alone and returned: the first is listed, the second is not.
C20_Witness ==
    /\ ret.op = "execute" /\ ret.res = "run" /\ ret.run.exit_code = 0
    /\ Len(ret.run.artifacts) = 1
    /\ ret.run.artifacts[1] \in Names(ret.run.before)
    /\ \E a \in ret.run.after \cap ret.run.before :
          a.name # ret.run.artifacts[1]

\* the bytes of the note `\nExecution timed out after 60s` in UTF-8
NoteBytes == 30

\* C21: for stdout and for stderr of every execute, the truncated flag is
\* set exactly when the guest wrote more than max_output_bytes bytes to the
\* stream (a stream of exactly max_output_bytes bytes is not flagged), and a
\* flagged stream is returned with at most max_output_bytes bytes, also the
\* stderr of a run that timed out.
C21_OutputWithinLimit ==
    LET \* the bytes of one character of a returned stream in UTF-8
        CharBytes(ch) ==
            IF ch = "e" THEN 1
            ELSE IF ch = "e9" THEN 2
            ELSE IF ch = "fffd" THEN 3
            ELSE NoteBytes
        \* the length in bytes of a returned stream
        Utf8Len(s) == Sum([i \in DOMAIN s |-> CharBytes(s[i])])
    IN
    (ret.op = "execute" /\ ret.res = "run")
        => /\ ret.run.stdout_truncated
                 <=> ret.run.out_bytes > max_output_bytes
           /\ ret.run.stderr_truncated
                 <=> ret.run.err_bytes > max_output_bytes
           /\ ret.run.stdout_truncated
                 => Utf8Len(ret.run.stdout) <= max_output_bytes
           /\ ret.run.stderr_truncated
                 => Utf8Len(ret.run.stderr) <= max_output_bytes

\* C22: the HTTP route answers as read_file does: 404 for a session that is
\* not in the registry and for a file that cannot be fetched, 413 for a file
\* of more than max_artifact_read_bytes bytes, 200 with the bytes of the file
\* otherwise; a body of more than max_artifact_read_bytes bytes is never sent
\* with status 200.
C22_HttpMapsReadOutcome ==
    ret.op = "download"
        => /\ ret.res \in {"200", "404", "413", "500"}
           /\ sessions[ret.sid] = NoCtr => ret.res = "404"
           /\ ret.res = "200"
                 => /\ ret.size = Len(ret.data)
                    /\ ret.size <= max_artifact_read_bytes
           /\ ret.res = "413" => ret.size > max_artifact_read_bytes

\* C23: an upload with overwrite false that finds its filename in the data
\* directory returns file_exists (or fails in the engine) and changes no
\* file; file_exists is returned in no other case; an upload with overwrite
\* true makes no existence test, and every upload that succeeds leaves
\* exactly one file of its name, holding the decoded content, and the other
\* files as they were.
C23_OverwriteGuard ==
    [][\A t \in Clients : op[t] = "upload" =>
          /\ (/\ pc[t] = "u_test" /\ pc'[t] # "u_test"
              /\ filename[t] \in Names(containers[ctr[t]].files))
             => (/\ ret'.t = t /\ ret'.res \in {"file_exists", "raise"}
                 /\ UNCHANGED containers)
          /\ (ret'.t = t /\ ret'.res = "file_exists")
             => (/\ ~ow[t] /\ pc[t] = "u_test"
                 /\ filename[t] \in Names(containers[ctr[t]].files))
          /\ pc'[t] = "u_test" => ~ow[t]
          /\ (pc[t] = "u_put" /\ pc'[t] # "u_put" /\ B64Valid(content[t]))
             => ret'.res \in {"uploaded", "raise"}
          /\ (ret'.t = t /\ ret'.res = "uploaded")
             => (/\ {r \in containers'[ctr[t]].files : r.name = filename[t]}
                       = FileSet({filename[t]}, TarMtime,
                                 B64Decode(content[t]))
                 /\ Without(containers'[ctr[t]].files, {filename[t]})
                       = Without(containers[ctr[t]].files,
                                 {filename[t]}))]_vars

\* C23 witness: an upload without overwrite has just returned file_exists
\* and the file it found is in the data directory of its session.
C23_Witness ==
    /\ ret.op = "upload" /\ ret.res = "file_exists"
    /\ sessions[ret.sid] # NoCtr
    /\ containers[sessions[ret.sid]].files # {}

\* C24: round trip of upload and read. The file that a successful upload of
\* the encoding of the bytes b leaves holds b; the data directory changes in
\* no step other than a put_archive, a guest run or the removal of the
\* container; and a read that succeeds returns the encoding of the bytes the
\* file holds, with size_bytes their number; a read of a file of at most
\* max_artifact_read_bytes bytes succeeds unless the engine call fails
\* (not_found) or the reading of its archive fails (the exception leaves
\* read_file).
C24_UploadReadRoundTrip ==
    [][/\ \A b \in ByteStrings(MaxBytes) :
             B64Valid(B64Encode(b)) /\ B64Decode(B64Encode(b)) = b
       /\ \A c \in DOMAIN containers :
             containers'[c].files # containers[c].files
                => \E t \in Clients :
                      ctr[t] = c /\ pc[t] \in {"u_put", "x_guest", "c_rm"}
       /\ \A t \in Clients :
             /\ (ret'.t = t /\ ret'.op = "upload" /\ ret'.res = "uploaded")
                => \E r \in containers'[ctr[t]].files :
                      r.name = filename[t] /\ B64Encode(r.data) = content[t]
             /\ (ret'.t = t /\ ret'.op = "read" /\ ret'.res = "read")
                => \E r \in containers[ctr[t]].files :
                      /\ DataPath(r.name) = path[t]
                      /\ ret'.data = B64Encode(r.data)
                      /\ B64Decode(ret'.data) = r.data
                      /\ ret'.size = Len(r.data)
             /\ (/\ pc[t] = "r_arch" /\ pc'[t] # "r_arch"
                 /\ \E r \in containers[ctr[t]].files :
                       /\ DataPath(r.name) = path[t]
                       /\ Len(r.data) <= max_artifact_read_bytes)
                => ret'.res \in {"read", "not_found", "raise"}]_vars

\* C24 witness: a read has returned the content of an uploaded file that no
\* guest program has written since, of exactly max_artifact_read_bytes bytes
\* of value 0xff.
C24_Witness ==
    /\ ret.op = "read" /\ ret.res = "read"
    /\ ret.size = max_artifact_read_bytes
    /\ ret.size > 0
    /\ sessions[ret.sid] # NoCtr
    /\ \E r \in containers[sessions[ret.sid]].files :
          /\ DataPath(r.name) = ret.path
          /\ r.mtime = TarMtime
          /\ r.data = B64Decode(ret.data)
          /\ \A i \in DOMAIN r.data : r.data[i] = 255

C26_ReadSizeLimit ==
    [][\A t \in Clients :
          /\ (pc[t] = "r_arch" /\ pc'[t] # "r_arch")
             => \A r \in {x \in containers[ctr[t]].files :
                            DataPath(x.name) = path[t]} :
                   IF Len(r.data) > max_artifact_read_bytes
                   THEN /\ ret'.res \in {"artifact_too_large", "not_found",
                                          "raise"}
                        /\ ret'.res = "artifact_too_large"
                              => (/\ ret'.size = Len(r.data)
                                  /\ ret'.data = <<>>)
                   ELSE /\ ret'.res \in {"read", "not_found", "raise"}
                        /\ ret'.res = "read"
                              => (/\ ret'.size = Len(r.data)
                                  /\ ret'.data = B64Encode(r.data))
          /\ (op[t] = "read" /\ pc'[t] # pc[t]) => UNCHANGED containers
          /\ (ret'.t = t /\ ret'.op = "list" /\ ret'.res = "listing")
             => \A r \in containers'[ctr[t]].files :
                   \E i \in DOMAIN ret'.listing : ret'.listing[i] = r.name]_vars

\* C26 witness: a read has returned artifact_too_large for a file that is
\* one byte over the limit, and the file is in the data directory as before.
C26_Witness ==
    /\ ret.op = "read" /\ ret.res = "artifact_too_large"
    /\ ret.size = max_artifact_read_bytes + 1
    /\ sessions[ret.sid] # NoCtr
    /\ \E r \in containers[sessions[ret.sid]].files :
          DataPath(r.name) = ret.path /\ Len(r.data) = ret.size

\* C27: a list or read whose session id is not in the registry when the
\* method tests it returns session_not_found and leaves the three registry
\* maps and the containers unchanged; and no step of a list or read adds or
\* removes a session, a lock or a container.
C27_ListReadNeverCreate ==
    [][\A t \in Clients : op[t] \in {"list", "read"} =>
          /\ (/\ pc[t] \in {"l_chk", "r_chk"} /\ pc'[t] # pc[t]
              /\ sessions[sid[t]] = NoCtr)
             => (/\ ret'.t = t /\ ret'.res = "session_not_found"
                 /\ UNCHANGED <<sessions, last_accessed, locks, containers>>)
          /\ pc'[t] # pc[t] => UNCHANGED <<sessions, locks, containers>>]_vars

\* C27 witness: a list with an id that is not in the registry has returned
\* session_not_found while another session is registered; the id has no
\* entry and no container.
C27_Witness ==
    /\ ret.op = "list" /\ ret.res = "session_not_found"
    /\ SessionKeys # {}
    /\ ret.sid \notin SessionKeys \cup AccessKeys \cup LockKeys
    /\ Named(ret.sid) = {}

\* C28: for every limit max_upload_bytes, validate_upload_size accepts a
\* payload that encodes exactly max_upload_bytes bytes and rejects a payload
\* that encodes max_upload_bytes + 1 bytes with upload_too_large.
C28_UploadSizeGate ==
    (vcall.fn = "validate_upload_size" /\ vcall.out # "pending")
        => /\ Len(B64Decode(vcall.arg)) = vcall.limit => vcall.out = "ok"
           /\ Len(B64Decode(vcall.arg)) = vcall.limit + 1
                 => vcall.out = "upload_too_large"

\* the bytes that Python's "utf-8" codec writes for each character of the
\* code texts: "a" is 61, U+00E9 is c3 a9, U+20AC is e2 82 ac and U+1F600 is
\* f0 9f 98 80
ByteCount(code) ==
    Sum([i \in DOMAIN code |-> CASE code[i] = 97 -> 1
                                  [] code[i] = 233 -> 2
                                  [] code[i] = 8364 -> 3
                                  [] code[i] = 128512 -> 4])

\* C29: validate_code_size accepts a code text whose UTF-8 encoding has at
\* most max_code_bytes bytes and rejects one of max_code_bytes + 1 or more
\* bytes with code_too_large; every character counts with the length of its
\* encoding, not as one.
C29_CodeSizeGate ==
    (vcall.fn = "validate_code_size" /\ vcall.out # "pending")
        => /\ ByteCount(vcall.arg) <= vcall.limit => vcall.out = "ok"
           /\ ByteCount(vcall.arg) >= vcall.limit + 1
                 => vcall.out = "code_too_large"

\* a code text of no more than max_code_bytes characters and of
\* max_code_bytes + 1 bytes has been rejected
C29_Witness ==
    /\ vcall.fn = "validate_code_size"
    /\ vcall.out = "code_too_large"
    /\ Len(vcall.arg) <= vcall.limit
    /\ ByteCount(vcall.arg) = vcall.limit + 1

\* C30: the runs of one session are totally ordered and each run sees the
\* data directory as the previous run left it: a run takes its snapshot of
\* the directory only when no other run on the container of the session is
\* between lock.acquire and lock.release, and the snapshot is the directory
\* of that container, with every file that completed runs and uploads left.
C30_RunsOrdered ==
    [][\A t \in Clients :
          (op[t] = "execute" /\ pc[t] = "x_snap" /\ pc'[t] = "x_exec")
          => /\ run'[t].before = snapshot_files(ctr[t], 0)
             /\ \A u \in Clients \ {t} :
                   ~(InFlight(u) /\ ctr[u] = ctr[t])]_vars

\* C31: executes on different sessions do not exclude each other. An execute
\* that reaches lock.acquire while an execute is in flight on another session
\* (and none on its own) is not rejected with session_busy: it acquires its
\* lock and is in flight together with the other one.
C31_SessionsRunInParallel ==
    [][\A t \in Clients :
          (/\ pc[t] = "e_acq" /\ pc'[t] # "e_acq"
           /\ InFlightOn(sid[t]) = {}
           /\ \E u \in Clients \ {t} : InFlight(u) /\ sid[u] # sid[t])
          => /\ pc'[t] = "x_snap"
             /\ ret'.res # "session_busy"
             /\ \E u \in Clients \ {t} : InFlight(u)' /\ InFlight(t)']_vars

\* C31 witness: two executes are in flight at once, on two sessions of the
\* registry
C31_Witness ==
    /\ InFlight("t1") /\ InFlight("t2")
    /\ sid["t1"] # sid["t2"]
    /\ {sid["t1"], sid["t2"]} \subseteq SessionKeys

\* C32: liveness of expiry. With a reaper that is scheduled fairly, a
\* session of the registry that receives no further operation (the client
\* stays idle) does not stay in the registry for ever, whatever closes,
\* races and close errors came before: neither a session whose ttl ends
\* within the time of the clock, nor a session that is left with a reaper
\* thread that has ended.
C32_IdleSessionsExpire ==
    \A s \in SIDs :
        []<>(~(/\ pc["t1"] = "idle"
               /\ sessions[s] # NoCtr
               /\ \/ last_accessed[s] + session_ttl < MaxTime
                  \/ pc[Reaper] = "dead"))

\* C33: in a serving broker with no call in progress, every labelled
\* container is the container of a session of the registry, also after a
\* creation whose container start failed and after a close whose removal
\* failed.
C33_NoOrphanWhileServing ==
    (boot = "serve" /\ \A t \in Clients : pc[t] = "idle")
        => \A c \in Labelled : \E s \in SessionKeys : sessions[s] = c

\* C34: an operation that returns an error does not reset the idle time of
\* its session. Session a was last accessed at time 0 and the clock is past
\* it: when the first call after that is an operation on a that returns
\* session_busy, file_exists, invalid_content, not_found or
\* artifact_too_large, the last access of a is still 0.
C34_ErrorsKeepIdleTime ==
    (/\ ops = 1 /\ ret.t = "t1" /\ ret.sid = "a"
     /\ ret.res \in {"session_busy", "file_exists", "invalid_content",
                     "not_found", "artifact_too_large"})
        => last_accessed["a"] = 0

\* C35: an upload, list or read that runs during an execute on the same
\* session does not disturb it: the artifacts of the execute are files that
\* the run itself created or changed. The guest programs of this
\* specification write no file, so no execute reports an artifact.
C35_ArtifactsAreTheRunsOwn ==
    (ret.op = "execute" /\ ret.res = "run") => ret.run.artifacts = <<>>

\* C36: the mapping of engine exceptions is a function of the exception
\* class: every refusal of the engine API (APIError and its subclasses) gives
\* docker_error, every other DockerException gives docker_unavailable, and
\* every other exception gives execution_failed.
C36_MappingByClass ==
    (vcall.fn = "_map_docker_error" /\ vcall.out # "pending")
        => vcall.out =
              IF vcall.exc \in {"APIError", "NotFound", "ImageNotFound"}
              THEN "docker_error"
              ELSE IF vcall.exc = "DockerException" THEN "docker_unavailable"
              ELSE "execution_failed"

\* C37: both copies of the filename validator accept a name iff it consists
\* of 1 to 255 characters of A-Z a-z 0-9 . _ - and has no ".." in it; a name
\* that is not of this form gives invalid_filename (also when it has ".."),
\* and a name of this form with ".." gives invalid_path.
C37_FilenameValidation ==
    (vcall.fn \in {"validate_filename", "_validate_filename"}
     /\ vcall.out # "pending")
        => LET f == vcall.arg
               allowed ==
                   /\ Len(f) \in 1..255
                   /\ \A i \in 1..Len(f) :
                         f[i] \in (97..122) \cup (65..90) \cup (48..57)
                                  \cup {46, 95, 45}
               dots == \E i \in 1..(Len(f) - 1) : f[i] = 46 /\ f[i + 1] = 46
           IN  vcall.out = IF ~allowed THEN "invalid_filename"
                           ELSE IF dots THEN "invalid_path"
                           ELSE "ok"

\* C38: the mutex that the registry holds for a session is locked iff an
\* execute on that session is between lock.acquire and lock.release.
C38_MutexHeldIffInFlight ==
    \A s \in SIDs :
        locks[s] # NoLock
            => (locks[s] \in held <=> \E t \in Clients : InFlight(t) /\ sid[t] = s)

\* C39: the reaper removes a session from the registry only when the session
\* is idle for more than the ttl at that moment: an id whose last access was
\* refreshed after the scan is not closed.
C39_ReaperClosesOnlyStale ==
    [][(pc[Reaper] = "c_pop1" /\ pc'[Reaper] = "c_pop2")
          => (/\ last_accessed[sid[Reaper]] # NoTime
              /\ now - last_accessed[sid[Reaper]] > session_ttl)]_vars

\* C40: of two concurrent uploads of one new filename to one session, both
\* with overwrite false, at most one succeeds and the other returns
\* file_exists: when one of them stores the file and returns success, the
\* other has not yet passed the existence test (the only place that returns
\* file_exists), so it cannot store its content over the file.
C40_NoOverwriteRace ==
    [][\A t, u \in Clients :
          (/\ t # u /\ op[t] = "upload" /\ op[u] = "upload"
           /\ ~ow[t] /\ ~ow[u]
           /\ ctr[t] = ctr[u] /\ filename[t] = filename[u]
           /\ B64Valid(content[u])
           /\ pc[t] = "u_put"
           /\ filename[t] \notin Names(containers[ctr[t]].files)
           /\ ret'.t = t /\ ret'.res = "uploaded")
          => pc[u] # "u_put"]_vars

====
